---------------------------- MODULE Spec2Model ----------------------------
(***************************************************************************)
(* Verification model of the Bible ingestion scripts:                      *)
(*   import_kjv_usfx.py        streaming (milestone dialect) extractor     *)
(*   import_kjv.py             DOM extractor and last-write-wins writer    *)
(*   import_kjv_osis.py        DOM extractor and patch-only-if-empty writer*)
(*   etl_bibles_to_supabase.py batched ETL with annotations                *)
(*                                                                         *)
(* Python str values are sequences of one-character strings, so that       *)
(* strip(), join(), split() and re.sub() are computed and not assumed; a   *)
(* book code or book name is one symbol of such a sequence.  A Python None *)
(* in a str slot that the code only tests for truthiness is the empty      *)
(* sequence (None and "" take the same branch everywhere).                 *)
(***************************************************************************)
EXTENDS Integers, Sequences, FiniteSets, TLC

\* ------------------------------------------------------------------ bounds
MaxEvents == 6
MaxDepth == 3
MaxUpserts == 2
MaxSource == 2
MaxRows == 2
MaxCommit == 2
MaxTextLen == 142
MaxNodes == 3
MaxMarkers == 4
MaxAnnotated == 3

\* ------------------------------------------------------------- Python str
NoneStr == <<"<None>">>
NoneInt == -1

\* The character classes of the regular expressions, over the characters
\* the model's texts are written with.
Spaces == {" ", "\n", "\t"}                                   \* \s
Digits == {"0", "1", "2", "3", "4", "5", "6", "7", "8", "9"}  \* \d
Vowels == {"a", "e", "i", "o", "u", "y"}                      \* [aeiouy]
Letters ==
    {"a", "b", "c", "d", "e", "f", "g", "h", "i", "j", "k", "l", "m",
     "n", "o", "p", "q", "r", "s", "t", "u", "v", "w", "x", "y", "z", "R", "H", "S"}
WordChars == Letters \cup Digits \cup {"_"}                      \* \w
SentenceEnds == {".", "!", "?"}                               \* [.!?]

MinOf(S) == CHOOSE x \in S : \A y \in S : x <= y
MaxOf(S) == CHOOSE x \in S : \A y \in S : x >= y

\* The subsequence of s at the indices in keep.
Keep(s, keep) ==
    LET F[i \in 0..Len(s)] ==
            IF i = 0 THEN << >>
            ELSE IF i \in keep THEN Append(F[i - 1], s[i]) ELSE F[i - 1]
    IN  F[Len(s)]

\* str.lower(), on the letters the model's texts are written with
lower(s) ==
    [i \in 1..Len(s) |-> IF s[i] = "R" THEN "r" ELSE IF s[i] = "H" THEN "h"
                         ELSE IF s[i] = "S" THEN "s" ELSE s[i]]

\* str.strip()
strip(s) ==
    LET ink == {i \in 1..Len(s) : s[i] \notin Spaces}
    IN  IF ink = {} THEN << >> ELSE SubSeq(s, MinOf(ink), MaxOf(ink))

\* re.sub(r"\s+", " ", s): a space for every maximal run of whitespace
collapse_ws(s) ==
    Keep([i \in 1..Len(s) |-> IF s[i] \in Spaces THEN " " ELSE s[i]],
         {i \in 1..Len(s) : s[i] \notin Spaces \/ i = 1 \/ s[i - 1] \notin Spaces})

\* re.sub(r"\D", "", s)
strip_non_digits(s) == Keep(s, {i \in 1..Len(s) : s[i] \in Digits})

\* sep.join(parts)
join(sep, parts) ==
    LET F[i \in 0..Len(parts)] ==
            IF i = 0 THEN << >>
            ELSE IF i = 1 THEN parts[1]
            ELSE F[i - 1] \o sep \o parts[i]
    IN  F[Len(parts)]

\* len(re.findall(<class>+, s)): the number of maximal runs of the class
Runs(s, class) ==
    Cardinality({i \in 1..Len(s) : s[i] \in class /\ (i = 1 \/ s[i - 1] \notin class)})
\* len(re.findall(<class>, s))
Count(s, class) == Cardinality({i \in 1..Len(s) : s[i] \in class})

DigitVal(c) ==
    CASE c = "0" -> 0 [] c = "1" -> 1 [] c = "2" -> 2 [] c = "3" -> 3 [] c = "4" -> 4
      [] c = "5" -> 5 [] c = "6" -> 6 [] c = "7" -> 7 [] c = "8" -> 8 [] c = "9" -> 9

DigitChar(d) == <<"0", "1", "2", "3", "4", "5", "6", "7", "8", "9">>[d + 1]

\* int(s) for a string of digits
int(s) ==
    LET F[i \in 0..Len(s)] == IF i = 0 THEN 0 ELSE 10 * F[i - 1] + DigitVal(s[i])
    IN  F[Len(s)]

\* str(n) for n >= 0, as the f-strings format chapter and verse
str(n) ==
    LET F[k \in 0..n] == IF k < 10 THEN <<DigitChar(k)>>
                         ELSE Append(F[k \div 10], DigitChar(k % 10))
    IN  F[n]

\* int(re.sub(r"\D", "", tok) or "0")
digits_or_zero(tok) ==
    LET d == strip_non_digits(tok) IN int(IF d = << >> THEN <<"0">> ELSE d)


\* ------------------------------------------------------------ Text Metrics
\* readability_grade(text), in tenths of a grade:
\* round(0.39*(words/max(1,sents)) + 11.8*(syll/max(1,words)) - 15.59, 1)
\* computed exactly over the rationals, ties rounded up.
readability_grade(text) ==
    LET words == Runs(text, WordChars)
        sents == Count(text, SentenceEnds)
        sy    == Runs(lower(text), Vowels)
        syll  == IF sy = 0 THEN 1 ELSE sy
        S     == IF sents < 1 THEN 1 ELSE sents
        W     == IF words < 1 THEN 1 ELSE words
        num   == 39 * words * W + 1180 * syll * S - 1559 * S * W
        den   == 10 * S * W
    IN  (2 * num + den) \div (2 * den)

\* sha1(s): a digest of the text, taken as collision-free.
sha1(s) == <<"sha1">> \o s

\* ------------------------------------------- import_kjv_usfx.py: book tables
\* Two of the 66 entries of each table; every other code is unknown.
USFX_TO_OSIS ==
    [c \in {<<"GEN">>, <<"EXO">>} |-> IF c = <<"GEN">> THEN <<"Gen">> ELSE <<"Exod">>]
OSIS_TO_NAME ==
    [c \in {<<"Gen">>, <<"Exod">>} |-> IF c = <<"Gen">> THEN <<"Genesis">> ELSE <<"Exodus">>]

\* dict.get(key) and dict.get(key, default)
get(d, k, default) == IF k \in DOMAIN d THEN d[k] ELSE default

SKIP_NAMES == {"note", "xref", "f", "footnote", "x", "rf", "fn"}

make_row(osis_book, book_name, chapter, verse, text) ==
    LET clean == strip(collapse_ws(text))
    IN  [osis_id       |-> osis_book \o <<".">> \o str(chapter) \o <<".">> \o str(verse),
         translation   |-> "KJV",
         book          |-> book_name,
         chapter       |-> chapter,
         verse         |-> verse,
         ref_display   |-> book_name \o <<" ">> \o str(chapter) \o <<":">> \o str(verse),
         text          |-> clean,
         char_count    |-> Len(clean),
         word_count    |-> Runs(clean, WordChars),
         reading_grade |-> readability_grade(clean),
         text_hash     |-> sha1(clean)]

\* ------------------------------------------------- state outside the parser
\* The store: the tables as the open transaction sees them, and as committed
VARIABLES cur, committed

storeVars == <<cur, committed>>

\* Any sequence of the ETL's upserts
VARIABLES
    last_verse,       \* key -> the derived fields of the latest upsert_verse
    last_annotation,  \* key -> the derived fields of the latest upsert_annotation
    n_upserts         \* statements executed so far

upsertVars == <<last_verse, last_annotation, n_upserts>>

\* import_kjv_osis.py main
VARIABLES
    before_patch,   \* the tables before the latest UPSERT_IF_EMPTY
    patch_rows      \* the row of the latest UPSERT_IF_EMPTY (none before the first)

patchVars == <<before_patch, patch_rows>>

\* An importer run twice on one source
VARIABLES
    source,       \* the verse nodes of the source file, in document order
    writer,       \* the importer: "kjv", "usfx", or "etl" (its verse writer)
    run_no,       \* 1, 2: the run in progress; 3: both runs are over
    idx,          \* index of the next node of the run in progress
    after_first   \* the tables as the first run left them

idemVars == <<source, writer, run_no, idx, after_first>>

\* A run of an importer: etl_bibles_to_supabase.py, import_kjv_usfx.py or
\* import_kjv.py
VARIABLES
    script,           \* which importer runs: "etl", "usfx" or "kjv"
    file_exists,      \* translation -> whether its source file exists
    args,             \* the command line: dsn given, no_embeddings, commit_size
    model_installed,  \* whether the sentence-embedding model can be loaded
    _model,           \* the cached model handle
    use_embeddings,
    pc,               \* "start", "files", "rows", "done", "exit" or "failed"
    file_idx,         \* index in files of the file being read
    batch_texts,
    batch_meta,
    count,            \* rows written so far (count in etl, rows elsewhere)
    lost,             \* the tables as the transaction a failure ended saw them
    written,          \* (osis_id, tr) of each upsert_verse call of the ETL, in order
    annotated         \* (osis_id, tr) of each upsert_annotation call of a batch
                      \* that process_annotations finished, in order

runVars == <<script, file_exists, args, model_installed, _model, use_embeddings,
             pc, file_idx, batch_texts, batch_meta, count, lost, written, annotated>>

\* One function of the ETL's annotation applied to one input, and one DOM
\* extractor applied to one file
VARIABLES
    ann_vec,     \* v_embed: the fingerprint of the verse, or NoneVec
    ann_text,    \* row["text"]
    ann_out,     \* the dict process_annotations builds from them, once built
    tree,        \* the verse nodes of the file, in document order
    extractor,   \* whose parse_osis reads it: "kjv", "osis" or "etl"
    node_idx,    \* index of the next node
    yielded,     \* the rows parse_osis has yielded so far, in order
    _tag_centroids,  \* the module's cache of theme centroids: "None" or "built"
    label_embeds     \* vocabulary -> how often embed_texts was given its labels

fnVars == <<ann_vec, ann_text, ann_out, tree, extractor, node_idx, yielded,
            _tag_centroids, label_embeds>>

\* The streaming extractor run on a given document
VARIABLES
    doc,    \* the document being parsed, as the parameters of its shape
    pos     \* index of the next parse event of doc

scriptVars == <<doc, pos>>

\* --------------------------------- import_kjv_usfx.py: parse_usfx_stream
VARIABLES
    current_book_code, current_book_name, current_osis_book,
    current_chapter, current_verse, buffer,
    emitted,    \* the rows the generator has yielded so far, in order
    stack,      \* names of the elements iterparse has opened and not yet closed
    nEvents     \* parse events delivered so far

streamVars == <<current_book_code, current_book_name, current_osis_book,
                current_chapter, current_verse, buffer, emitted, stack, nEvents>>

\* " ".join(s.strip() for s in buffer if s and s.strip())
joined(buf) ==
    LET kept == SelectSeq(buf, LAMBDA s : s # << >> /\ strip(s) # << >>)
    IN  join(<<" ">>, [i \in 1..Len(kept) |-> strip(kept[i])])

\* flush without the test for a non-empty buffer
flush_ignores_buffer(osis_book, book_name, chapter, verse, buf) ==
    IF verse # NoneInt /\ osis_book # NoneStr /\ chapter # NoneInt /\ chapter # 0
    THEN <<make_row(osis_book, book_name, chapter, verse, joined(buf))>>
    ELSE << >>

\* The rows yielded by "flush any open verse": one row, or none.
\*   if current_verse is not None and buffer and current_osis_book and current_chapter:
\*       yield make_row(..., " ".join(...))
flush(osis_book, book_name, chapter, verse, buf) ==
    IF verse # NoneInt /\ buf # << >> /\ osis_book # NoneStr
       /\ chapter # NoneInt /\ chapter # 0
    THEN <<make_row(osis_book, book_name, chapter, verse, joined(buf))>>
    ELSE << >>

\* capture without the test t.strip()
capture_keeps_blank(verse, chapter, name, buf, t) ==
    IF verse # NoneInt /\ verse # 0 /\ chapter # NoneInt /\ chapter # 0
       /\ name \notin SKIP_NAMES /\ t # << >>
    THEN Append(buf, t)
    ELSE buf

\* The buffer after
\*   if current_verse and current_chapter and name not in SKIP_NAMES:
\*       if t and t.strip(): buffer.append(t)
capture(verse, chapter, name, buf, t) ==
    IF verse # NoneInt /\ verse # 0 /\ chapter # NoneInt /\ chapter # 0
       /\ name \notin SKIP_NAMES /\ t # << >> /\ strip(t) # << >>
    THEN Append(buf, t)
    ELSE buf

\* int(re.sub(r"\D", "", elem.attrib.get("id") or elem.attrib.get("number") or "") or "0")
marker_number(attrib) ==
    digits_or_zero(IF attrib.id # << >> THEN attrib.id ELSE attrib.number)

\* One iteration of the loop for a "start" event.  attrib holds the id and
\* number attributes, text is elem.text as the code reads it at that moment.
on_start(name, attrib, text) ==
    IF name = "book" /\ current_osis_book = NoneStr
    THEN /\ current_book_code' = attrib.id
         /\ current_osis_book' = get(USFX_TO_OSIS, attrib.id, NoneStr)
         /\ current_book_name' =
               IF current_osis_book' # NoneStr
               THEN get(OSIS_TO_NAME, current_osis_book', current_osis_book')
               ELSE NoneStr
         /\ UNCHANGED <<current_chapter, current_verse, buffer, emitted>>
    ELSE IF name \in {"c", "chapter"}
    THEN /\ LET chap == marker_number(attrib) IN
            IF chap > 0
            THEN /\ emitted' = emitted \o flush(current_osis_book, current_book_name,
                                                current_chapter, current_verse, buffer)
                 /\ current_chapter' = chap
                 /\ current_verse' = NoneInt
                 /\ buffer' = << >>
            ELSE UNCHANGED <<emitted, current_chapter, current_verse, buffer>>
         /\ UNCHANGED <<current_book_code, current_book_name, current_osis_book>>
    ELSE IF name \in {"v", "verse"}
    THEN /\ LET vnum == marker_number(attrib)
                verse1 == IF vnum > 0 THEN vnum ELSE current_verse
                buf1 == IF vnum > 0 THEN << >> ELSE buffer
            IN  /\ emitted' =
                      IF vnum > 0
                      THEN emitted \o flush(current_osis_book, current_book_name,
                                            current_chapter, current_verse, buffer)
                      ELSE emitted
                /\ current_verse' = verse1
                /\ buffer' = capture(verse1, current_chapter, name, buf1, text)
         /\ UNCHANGED <<current_book_code, current_book_name, current_osis_book,
                        current_chapter>>
    ELSE /\ buffer' = capture(current_verse, current_chapter, name, buffer, text)
         /\ UNCHANGED <<current_book_code, current_book_name, current_osis_book,
                        current_chapter, current_verse, emitted>>

\* One iteration of the loop for an "end" event; tail is elem.tail as the
\* code reads it at that moment.
on_end(name, tail) ==
    LET buf1 == capture(current_verse, current_chapter, name, buffer, tail) IN
    IF name = "book"
    THEN /\ emitted' = emitted \o flush(current_osis_book, current_book_name,
                                        current_chapter, current_verse, buf1)
         /\ current_book_code' = NoneStr
         /\ current_osis_book' = NoneStr
         /\ current_book_name' = NoneStr
         /\ current_chapter' = NoneInt
         /\ current_verse' = NoneInt
         /\ buffer' = << >>
    ELSE /\ buffer' = buf1
         /\ UNCHANGED <<current_book_code, current_book_name, current_osis_book,
                        current_chapter, current_verse, emitted>>

\* The state at the top of parse_usfx_stream, before the first event.
StreamInit ==
    /\ current_book_code = NoneStr
    /\ current_book_name = NoneStr
    /\ current_osis_book = NoneStr
    /\ current_chapter = NoneInt
    /\ current_verse = NoneInt
    /\ buffer = << >>
    /\ emitted = << >>
    /\ stack = << >>
    /\ nEvents = 0

\* ---- the parse events of an arbitrary well-formed document
\* Text inside a note or cross-reference subtree is written with the letter
\* n, all other text without it, so a leaked note is visible in the output.
\* elem.text and elem.tail may be absent (None), blank or not.
BookIds == {<<"GEN">>, <<"EXO">>, <<"XXX">>}
MarkerAttrs ==
    {[id |-> << >>,    number |-> << >>],
     [id |-> <<"1">>,  number |-> << >>],
     [id |-> <<"2">>,  number |-> << >>],
     [id |-> <<"x">>,  number |-> <<"1">>],
     [id |-> << >>,    number |-> <<"2">>]}
NoAttrs == [id |-> << >>, number |-> << >>]
VerseTexts == {<< >>, <<"\n">>, <<"a">>, <<" ", "b">>}
NoteTexts == {<< >>, <<"n">>}

InNote(names) == \E i \in 1..Len(names) : names[i] \in SKIP_NAMES
TextsAt(names) == IF InNote(names) THEN NoteTexts ELSE VerseTexts

Open(name) ==
    /\ nEvents < MaxEvents
    /\ Len(stack) < MaxDepth
    /\ nEvents' = nEvents + 1
    /\ stack' = Append(stack, name)
    /\ UNCHANGED <<scriptVars, storeVars, upsertVars, patchVars, idemVars, runVars, fnVars>>

Close ==
    /\ nEvents < MaxEvents
    /\ stack # << >>
    /\ nEvents' = nEvents + 1
    /\ stack' = SubSeq(stack, 1, Len(stack) - 1)
    /\ UNCHANGED <<scriptVars, storeVars, upsertVars, patchVars, idemVars, runVars, fnVars>>

StartBook ==
    \E id \in BookIds, text \in VerseTexts \cup NoteTexts :
        /\ Open("book")
        /\ text \in TextsAt(stack')
        /\ on_start("book", [id |-> id, number |-> << >>], text)

StartChapter ==
    \E a \in MarkerAttrs :
        /\ Open("c")
        /\ on_start("c", a, << >>)

StartVerse ==
    \E a \in MarkerAttrs, text \in VerseTexts \cup NoteTexts :
        /\ Open("v")
        /\ text \in TextsAt(stack')
        /\ on_start("v", a, text)

StartOther ==
    \E name \in {"p", "f"}, text \in VerseTexts \cup NoteTexts :
        /\ Open(name)
        /\ text \in TextsAt(stack')
        /\ on_start(name, NoAttrs, text)

EndElement ==
    \E tail \in VerseTexts \cup NoteTexts :
        /\ Close
        /\ tail \in TextsAt(stack')
        /\ on_end(stack[Len(stack)], tail)

StreamNext ==
    \/ StartBook
    \/ StartChapter
    \/ StartVerse
    \/ StartOther
    \/ EndElement

\* ------------------------------------------ import_kjv.py: DOM extractor
\* s.split(sep)
split(s, sep) ==
    LET F[i \in 0..Len(s)] ==
            IF i = 0 THEN << << >> >>
            ELSE IF s[i] = sep THEN Append(F[i - 1], << >>)
            ELSE [F[i - 1] EXCEPT ![Len(F[i - 1])] = Append(@, s[i])]
    IN  F[Len(s)]

\* Two of the 66 entries; every other code is unknown.
BOOK_NAME_MAP ==
    [c \in {<<"Gen">>, <<"Exod">>} |-> IF c = <<"Gen">> THEN <<"Genesis">> ELSE <<"Exodus">>]

\* A verse node is [osisID, itertext]: its identifier attribute and the text
\* pieces node.itertext() yields, in document order.
\* re.sub(r"\s+", " ", "".join(node.itertext())).strip()
extract_plain_text(node) == strip(collapse_ws(join(<< >>, node.itertext)))

\* The rows parse_osis of import_kjv.py yields for one verse node (one or none).
kjv_parse_osis(node) ==
    LET parts == split(node.osisID, ".") IN
    IF Len(parts) < 3 THEN << >>
    ELSE LET book_code == parts[1]
             chapter == digits_or_zero(parts[2])
             verse == digits_or_zero(parts[3])
             book == get(BOOK_NAME_MAP, book_code, book_code)
             text == extract_plain_text(node)
         IN  <<[osis_id       |-> node.osisID,
                translation   |-> "KJV",
                book          |-> book,
                chapter       |-> chapter,
                verse         |-> verse,
                ref_display   |-> book \o <<" ">> \o str(chapter) \o <<":">> \o str(verse),
                text          |-> text,
                char_count    |-> Len(text),
                word_count    |-> Runs(text, WordChars),
                reading_grade |-> readability_grade(text),
                text_hash     |-> sha1(text)]>>

\* ------------------------------------ etl_bibles_to_supabase.py: extraction
\* int(s): the value, or the ValueError the code catches.  A token of an
\* identifier holds no whitespace; an optional sign is accepted.
py_int(s) ==
    LET signed == s # << >> /\ s[1] \in {"-", "+"}
        body == IF signed THEN Tail(s) ELSE s
        ok == body # << >> /\ \A i \in 1..Len(body) : body[i] \in Digits
    IN  IF ~ok THEN [ok |-> FALSE, value |-> 0]
        ELSE [ok |-> TRUE, value |-> IF signed /\ s[1] = "-" THEN 0 - int(body) ELSE int(body)]

\* The rows parse_osis of the ETL yields for one verse node (one or none).
etl_parse_osis(node) ==
    LET text == extract_plain_text(node)
        parts == split(node.osisID, ".")
    IN  IF Len(parts) < 3 THEN << >>
        ELSE LET book_code == parts[1]
                 chapter == IF py_int(parts[2]).ok THEN py_int(parts[2]).value
                            ELSE digits_or_zero(parts[2])
                 verse_num == digits_or_zero(parts[3])
                 book == get(BOOK_NAME_MAP, book_code, book_code)
             IN  <<[osis_id     |-> node.osisID,
                    book        |-> book,
                    chapter     |-> chapter,
                    verse       |-> verse_num,
                    ref_display |-> book \o <<" ">>
                                    \o (IF chapter < 0 THEN <<"-">> \o str(0 - chapter)
                                        ELSE str(chapter))
                                    \o <<":">> \o str(verse_num),
                    text        |-> text]>>

\* ------------------------------------------ import_kjv_osis.py: extraction
\* The rows parse_osis of import_kjv_osis.py yields for one verse node: as
\* import_kjv.py, but a verse with empty text is skipped.
osis_parse_osis(node) ==
    IF extract_plain_text(node) = << >> THEN << >> ELSE kjv_parse_osis(node)

\* ------------------------------------ etl_bibles_to_supabase.py: annotation
\* w in t
contains(t, w) == \E i \in 1..(Len(t) - Len(w) + 1) : SubSeq(t, i, i + Len(w) - 1) = w
contains_any(t, ws) == \E w \in ws : contains(t, w)

\* bool(re.compile(r"\b(w1|w2|...)\b", re.I).search(t))
search_words(t, ws) ==
    \E w \in ws : \E i \in 1..(Len(t) - Len(w) + 1) :
        /\ lower(SubSeq(t, i, i + Len(w) - 1)) = w
        /\ (i = 1 \/ t[i - 1] \notin WordChars)
        /\ (i + Len(w) - 1 = Len(t) \/ t[i + Len(w)] \notin WordChars)

RE_VIOLENCE ==
    {<<"s", "l", "a", "y">>, <<"s", "w", "o", "r", "d">>, <<"b", "l", "o", "o", "d">>,
     <<"w", "a", "r">>, <<"k", "i", "l", "l">>, <<"s", "t", "o", "n", "e">>,
     <<"s", "m", "i", "t", "e">>, <<"s", "p", "e", "a", "r">>,
     <<"b", "a", "t", "t", "l", "e">>, <<"s", "t", "r", "i", "k", "e">>}
RE_SEXUAL ==
    {<<"a", "d", "u", "l", "t", "e", "r">>,
     <<"f", "o", "r", "n", "i", "c", "a", "t", "i", "o", "n">>,
     <<"p", "r", "o", "s", "t", "i", "t", "u", "t">>, <<"l", "u", "s", "t">>,
     <<"n", "a", "k", "e", "d">>, <<"w", "h", "o", "r", "e">>,
     <<"h", "a", "r", "l", "o", "t">>}
RE_REBUKE ==
    {<<"w", "o", "e">>, <<"h", "y", "p", "o", "c", "r", "i", "t", "e">>,
     <<"w", "r", "a", "t", "h">>,
     <<"a", "b", "o", "m", "i", "n", "a", "t", "i", "o", "n">>,
     <<"r", "e", "b", "u", "k", "e">>, <<"c", "o", "n", "d", "e", "m", "n">>}
RE_SLAVERY ==
    {<<"s", "l", "a", "v", "e">>,
     <<"b", "o", "n", "d", "s", "e", "r", "v", "a", "n", "t">>,
     <<"s", "l", "a", "v", "e", "-", "m", "a", "s", "t", "e", "r">>,
     <<"s", "l", "a", "v", "e", "s">>,
     <<"b", "o", "n", "d", "s", "e", "r", "v", "a", "n", "t", "s">>}

\* kid_safe that any of the four flags takes away
safety_flags_strict(text) ==
    LET violence == search_words(text, RE_VIOLENCE)
        sexual == search_words(text, RE_SEXUAL)
        slavery == search_words(text, RE_SLAVERY)
        rebuke == search_words(text, RE_REBUKE)
    IN  [violence     |-> violence,
         sexual       |-> sexual,
         slavery      |-> slavery,
         harsh_rebuke |-> rebuke,
         kid_safe     |-> ~(violence \/ sexual \/ slavery \/ rebuke)]

safety_flags(text) ==
    LET violence == search_words(text, RE_VIOLENCE)
        sexual == search_words(text, RE_SEXUAL)
    IN  [violence     |-> violence,
         sexual       |-> sexual,
         slavery      |-> search_words(text, RE_SLAVERY),
         harsh_rebuke |-> search_words(text, RE_REBUKE),
         kid_safe     |-> ~(violence \/ sexual)]

\* list(THEME_DESCRIPTIONS.keys()), MOODS
THEMES ==
    <<"comfort", "hope", "trust", "wisdom", "forgiveness", "love", "joy", "strength",
      "guidance", "peace", "repentance", "healing", "generosity", "patience",
      "perseverance">>
MOODS ==
    <<"anxious", "tired", "grateful", "hopeful", "sad", "lonely", "guilty", "angry",
      "bereaved">>

\* A fingerprint (v_embed) is known by who made it (src: "model", the
\* sentence-embedding model; "pseudo", the seeded random fallback of
\* embed_texts) and by its products with the label centroids:
\*   theme_sims, mood_sims      (cents @ v_embed), in hundredths
\*   daypart_sims, tone_sims    (cents @ v_embed), in tenths
\*   theme_top, mood_top        np.argsort(sims)[::-1][:top_k], as indices
\* NoneVec is v_embed = None.
NoneVec == [src |-> "none"]

\* n similarities: base everywhere but at the indices of spikes
Sims(n, base, spikes) ==
    [i \in 1..n |-> IF i \in DOMAIN spikes THEN spikes[i] ELSE base]

\* top is a result of np.argsort(sims)[::-1][:k]: the way equal similarities
\* are ordered is the sort's affair
IsArgsortTop(sims, top) ==
    /\ \A i, j \in 1..Len(top) : i # j => top[i] # top[j]
    /\ \A i \in 1..(Len(top) - 1) : sims[top[i]] >= sims[top[i + 1]]
    /\ \A j \in DOMAIN sims :
          (\A i \in 1..Len(top) : top[i] # j) => sims[top[Len(top)]] >= sims[j]

ModelVectors ==
    {[src |-> "model",
      theme_sims |-> Sims(15, 10, (10 :> 60) @@ (1 :> 40) @@ (2 :> 30)),
      theme_top |-> <<10, 1, 2>>,
      mood_sims |-> Sims(9, 0, (2 :> 50) @@ (1 :> 40)),
      mood_top |-> <<2, 1>>,
      daypart_sims |-> <<0, 0, 0, 0>>,
      tone_sims |-> <<0, 0, 0, 0, 0>>],
     [src |-> "model",
      theme_sims |-> Sims(15, 10, (3 :> 20)),
      theme_top |-> <<3, 15, 14>>,
      mood_sims |-> Sims(9, 0, (5 :> 30) @@ (6 :> 20)),
      mood_top |-> <<5, 6>>,
      daypart_sims |-> <<10, 5, 0, -10>>,
      tone_sims |-> <<5, 10, 0, 0, 0>>]}
PseudoVector ==
    [src |-> "pseudo",
     theme_sims |-> Sims(15, 5, (4 :> 6)),
     theme_top |-> <<4, 15, 14>>,
     mood_sims |-> Sims(9, 5, (8 :> 9) @@ (7 :> 8)),
     mood_top |-> <<8, 7>>,
     daypart_sims |-> <<0, 0, 0, 0>>,
     tone_sims |-> <<0, 0, 0, 0, 0>>]

\* A probability is the fraction <<numerator, denominator>>.
\* The fixed priors [0.3,0.4,0.2,0.1] and [0.4,0.3,0.1,0.1,0.1]
DaypartPrior == <<<<3, 10>>, <<4, 10>>, <<2, 10>>, <<1, 10>>>>
TonePrior == <<<<4, 10>>, <<3, 10>>, <<1, 10>>, <<1, 10>>, <<1, 10>>>>

\* np.exp(d / 10) for d in -20..0, in thousandths
ExpTable ==
    <<1000, 905, 819, 741, 670, 607, 549, 497, 449, 407, 368,
      333, 301, 273, 247, 223, 202, 183, 165, 150, 135>>
exp(d) == ExpTable[1 - d]

Sum(f) ==
    LET F[i \in 0..Len(f)] == IF i = 0 THEN 0 ELSE F[i - 1] + f[i]
    IN  F[Len(f)]

\* softmax without the division by e.sum()
softmax_not_normalised(x) ==
    LET e == [i \in 1..Len(x) |-> exp(x[i] - MaxOf({x[j] : j \in 1..Len(x)}))]
    IN  [i \in 1..Len(x) |-> <<e[i], 1000>>]

\* x = x - x.max(); e = np.exp(x); return (e / e.sum()).tolist()
softmax(x) ==
    LET e == [i \in 1..Len(x) |-> exp(x[i] - MaxOf({x[j] : j \in 1..Len(x)}))]
    IN  [i \in 1..Len(x) |-> <<e[i], Sum(e)>>]

daypart_probs_from_semantics(v_embed) ==
    IF v_embed.src = "none" THEN DaypartPrior ELSE softmax(v_embed.daypart_sims)

tone_probs_from_semantics(v_embed) ==
    IF v_embed.src = "none" THEN TonePrior ELSE softmax(v_embed.tone_sims)

Take(s, k) == SubSeq(s, 1, IF Len(s) < k THEN Len(s) ELSE k)

theme_keyword_picks(t) ==
    (IF contains_any(t, {<<"p","e","a","c","e">>, <<"r","e","s","t">>, <<"r","e","f","u","g","e">>,
                         <<"c","a","r","e">>, <<"b","u","r","d","e","n">>,
                         <<"a","n","x","i","e","t","y">>})
     THEN <<"comfort">> ELSE << >>)
    \o (IF contains(t, <<"h","o","p","e">>) \/ contains(t, <<"p","r","o","m","i","s","e">>)
        THEN <<"hope">> ELSE << >>)
    \o (IF contains(t, <<"t","r","u","s","t">>) \/ contains(t, <<"r","e","f","u","g","e">>)
           \/ contains(t, <<"s","h","i","e","l","d">>)
        THEN <<"trust">> ELSE << >>)
    \o (IF contains(t, <<"w","i","s","d","o","m">>)
           \/ contains(t, <<"u","n","d","e","r","s","t","a","n","d","i","n","g">>)
        THEN <<"wisdom">> ELSE << >>)

\* theme_tags_from_semantics without "or ['comfort']"
theme_tags_no_fallback(v_embed, text) ==
    IF v_embed.src = "none"
    THEN Take(theme_keyword_picks(lower(text)), 3)
    ELSE LET above == {i \in 1..3 : ~(v_embed.theme_sims[v_embed.theme_top[i]] < 25)}
             out == Keep(v_embed.theme_top, above)
         IN  [i \in 1..Len(out) |-> THEMES[out[i]]]

\* Keyword picks without a fingerprint; with one, the top_k = 3 themes by
\* similarity that are not below 0.25, or ["comfort"] if there is none
theme_tags_from_semantics(v_embed, text) ==
    IF v_embed.src = "none"
    THEN LET picks == theme_keyword_picks(lower(text))
         IN  Take(IF picks = << >> THEN <<"comfort">> ELSE picks, 3)
    ELSE LET above == {i \in 1..3 : ~(v_embed.theme_sims[v_embed.theme_top[i]] < 25)}
             out == Keep(v_embed.theme_top, above)
         IN  IF out = << >> THEN <<"comfort">>
             ELSE [i \in 1..Len(out) |-> THEMES[out[i]]]

mood_keyword_picks(t) ==
    (IF contains_any(t, {<<"f","e","a","r">>, <<"a","n","x","i","e","t","y">>,
                         <<"c","a","r","e">>, <<"t","r","o","u","b","l","e">>})
     THEN <<"anxious">> ELSE << >>)
    \o (IF contains(t, <<"w","e","a","r","y">>) \/ contains(t, <<"r","e","s","t">>)
        THEN <<"tired">> ELSE << >>)
    \o (IF contains(t, <<"p","r","a","i","s","e">>) \/ contains(t, <<"t","h","a","n","k","s">>)
        THEN <<"grateful">> ELSE << >>)
    \o (IF contains(t, <<"h","o","p","e">>) \/ contains(t, <<"j","o","y">>)
        THEN <<"hopeful">> ELSE << >>)

mood_tags_from_semantics(v_embed, text) ==
    IF v_embed.src = "none"
    THEN LET picks == mood_keyword_picks(lower(text))
         IN  Take(IF picks = << >> THEN <<"hopeful">> ELSE picks, 2)
    ELSE [i \in 1..2 |-> MOODS[v_embed.mood_top[i]]]

\* The text lengths L < 140 with 140 - L odd for which round(base, 3) goes
\* up: base = 0.5 + (140 - L) / 400.0 is then halfway between two
\* thousandths on paper, and round() goes by the binary64 value of base,
\* which lies above the halfway point for these L and below it for the rest.
RoundsUp ==
    {3, 5, 7, 9, 11, 13, 29, 33, 37, 41, 45, 47, 49, 51, 53, 55, 57, 59, 61, 63, 65,
     87, 91, 95, 97, 99, 101, 103, 105, 107, 109, 111, 113}

\* familiarity_score without max(0, ...) around 140 - L
familiarity_unclamped(text) ==
    LET L == Len(text)
        twice == 1000 + 5 * (140 - L)
        base == IF twice % 2 = 0 THEN twice \div 2
                ELSE IF L \in RoundsUp THEN (twice + 1) \div 2 ELSE (twice - 1) \div 2
    IN  IF base < 0 THEN 0 ELSE IF base > 1000 THEN 1000 ELSE base

\* familiarity_score(text), in thousandths:
\*   L = len(text); base = 0.5 + max(0, (140 - L)) / 400.0
\*   return max(0.0, min(1.0, round(base, 3)))
familiarity_score(text) ==
    LET L == Len(text)
        over == IF 140 - L > 0 THEN 140 - L ELSE 0
        twice == 1000 + 5 * over
        base == IF twice % 2 = 0 THEN twice \div 2
                ELSE IF L \in RoundsUp THEN (twice + 1) \div 2 ELSE (twice - 1) \div 2
    IN  IF base < 0 THEN 0 ELSE IF base > 1000 THEN 1000 ELSE base

\* The dict process_annotations builds for one queued row
annotation(v_embed, text) ==
    [themes        |-> theme_tags_from_semantics(v_embed, text),
     moods         |-> mood_tags_from_semantics(v_embed, text),
     daypart_probs |-> daypart_probs_from_semantics(v_embed),
     tone_probs    |-> tone_probs_from_semantics(v_embed),
     safety        |-> safety_flags(text),
     familiarity   |-> familiarity_score(text)]

\* get_model(): the cached handle, or the result of trying the import
get_model(cached, installed) ==
    IF cached # "None" THEN cached ELSE IF installed THEN "MiniLM" ELSE "None"

\* ------------------------------------------------------------ the store
\* A table is the sequence of its rows.  The cursor works on cur, the tables
\* as the open transaction sees them; committed is what conn.commit() has
\* made durable.  A connection that is closed or lost without commit leaves
\* committed as it is.

EmptyStore == [verses |-> << >>, verse_annotations |-> << >>]

conflicts(table, new) ==
    {i \in 1..Len(table) :
        table[i].osis_id = new.osis_id /\ table[i].translation = new.translation}

\* insert ... without the on conflict clause, on a table with no unique key
insert_only(table, new, fields) == Append(table, new)

\* insert ... on conflict (osis_id, translation) do nothing
insert_or_ignore(table, new, fields) ==
    IF conflicts(table, new) = {} THEN Append(table, new) ELSE table

\* insert into <table> values (new)
\* on conflict (osis_id, translation) do update set f = excluded.f, for f in fields
insert_on_conflict_update(table, new, fields) ==
    IF conflicts(table, new) = {} THEN Append(table, new)
    ELSE [i \in 1..Len(table) |->
            IF i \in conflicts(table, new)
            THEN [f \in DOMAIN new |-> IF f \in fields THEN new[f] ELSE table[i][f]]
            ELSE table[i]]

VerseDerived == {"text", "char_count", "word_count", "reading_grade", "text_hash"}
AnnotationDerived ==
    {"themes", "moods", "daypart_probs", "tone_probs", "safety", "familiarity", "embedding"}

\* etl: upsert_verse(cur, tr, row)
upsert_verse(c, tr, row) ==
    [c EXCEPT !.verses = insert_on_conflict_update(@,
        [osis_id       |-> row.osis_id,
         translation   |-> tr,
         book          |-> row.book,
         chapter       |-> row.chapter,
         verse         |-> row.verse,
         ref_display   |-> row.ref_display,
         text          |-> row.text,
         char_count    |-> Len(row.text),
         word_count    |-> Runs(row.text, WordChars),
         reading_grade |-> readability_grade(row.text),
         text_hash     |-> sha1(row.text)],
        VerseDerived)]

\* etl: upsert_annotation(cur, tr, osis_id, ann, embed_vec)
upsert_annotation(c, tr, osis_id, ann, embed_vec) ==
    [c EXCEPT !.verse_annotations = insert_on_conflict_update(@,
        [osis_id       |-> osis_id,
         translation   |-> tr,
         themes        |-> ann.themes,
         moods         |-> ann.moods,
         daypart_probs |-> ann.daypart_probs,
         tone_probs    |-> ann.tone_probs,
         safety        |-> ann.safety,
         familiarity   |-> ann.familiarity,
         embedding     |-> embed_vec],
        AnnotationDerived)]

\* import_kjv_usfx / import_kjv: cur.execute(UPSERT_SQL, row)
UPSERT_SQL(c, row) ==
    [c EXCEPT !.verses = insert_on_conflict_update(@, row, VerseDerived)]

\* SQL trim(text): leading and trailing spaces removed (spaces only)
sql_trim(s) ==
    LET ink == {i \in 1..Len(s) : s[i] # " "}
    IN  IF ink = {} THEN << >> ELSE SubSeq(s, MinOf(ink), MaxOf(ink))

\* coalesce(length(trim(public.verses.text)), 0) = 0
sql_text_is_empty(text) == text = NoneStr \/ Len(sql_trim(text)) = 0

\* The patch without its case expressions: the stored text is not looked at
patch_always(c, row) ==
    [c EXCEPT !.verses = insert_on_conflict_update(@, row, VerseDerived)]

\* import_kjv_osis: cur.execute(UPSERT_IF_EMPTY, row)
UPSERT_IF_EMPTY(c, row) ==
    [c EXCEPT !.verses =
        IF conflicts(@, row) = {} THEN Append(@, row)
        ELSE [i \in 1..Len(@) |->
                IF i \in conflicts(@, row) /\ sql_text_is_empty(@[i].text)
                THEN [f \in DOMAIN row |-> IF f \in VerseDerived THEN row[f] ELSE @[i][f]]
                ELSE @[i]]]

\* Verse nodes of a DOM-dialect source file: one verse with two readings of
\* its text, a second verse, a node with a two-segment identifier and a
\* verse with blank text.
Node(id, pieces) == [osisID |-> id, itertext |-> pieces]
Gen_1_1 == <<"Gen", ".", "1", ".", "1">>
Gen_1_2 == <<"Gen", ".", "1", ".", "2">>
SourceNodes ==
    {Node(Gen_1_1, <<<<"a">>>>),
     Node(Gen_1_1, <<<<"a", "\n">>, <<"b", ".">>>>),
     Node(Gen_1_2, <<<<"R", "e", "s", "t">>>>),
     Node(<<"Gen", ".", "1">>, <<<<"a">>>>),
     Node(Gen_1_2, <<<<" ">>>>)}

\* A row some earlier run left in the store, with the given text
OldVerse(text) ==
    [osis_id       |-> Gen_1_1,
     translation   |-> "KJV",
     book          |-> <<"Genesis">>,
     chapter       |-> 1,
     verse         |-> 1,
     ref_display   |-> <<"Genesis", " ", "1", ":", "1">>,
     text          |-> text,
     char_count    |-> IF text = NoneStr THEN NoneInt ELSE Len(text),
     word_count    |-> IF text = NoneStr THEN NoneInt ELSE Runs(text, WordChars),
     reading_grade |-> IF text = NoneStr THEN NoneInt ELSE readability_grade(text),
     text_hash     |-> IF text = NoneStr THEN NoneStr ELSE sha1(text)]

StoreWith(rows) == [verses |-> rows, verse_annotations |-> << >>]

KeysOf(table) == {<<table[i].osis_id, table[i].translation>> : i \in 1..Len(table)}
RowsAt(table, key) ==
    {i \in 1..Len(table) : <<table[i].osis_id, table[i].translation>> = key}

\* ---------------------------------- any sequence of the ETL's upserts

Translations == {"KJV", "WEB"}

Latest(last, key, fields) ==
    [k \in DOMAIN last \cup {key} |-> IF k = key THEN fields ELSE last[k]]

Only(row, fields) == [f \in fields |-> row[f]]

UpsertVerse ==
    /\ n_upserts < MaxUpserts
    /\ \E tr \in Translations, node \in SourceNodes :
        /\ etl_parse_osis(node) # << >>
        /\ LET row == etl_parse_osis(node)[1] IN
            /\ cur' = upsert_verse(cur, tr, row)
            /\ last_verse' = Latest(last_verse, <<row.osis_id, tr>>,
                                    [text          |-> row.text,
                                     char_count    |-> Len(row.text),
                                     word_count    |-> Runs(row.text, WordChars),
                                     reading_grade |-> readability_grade(row.text),
                                     text_hash     |-> sha1(row.text)])
    /\ n_upserts' = n_upserts + 1
    /\ UNCHANGED <<committed, last_annotation, streamVars, scriptVars, patchVars, idemVars, runVars, fnVars>>

UpsertAnnotation ==
    /\ n_upserts < MaxUpserts
    /\ \E tr \in Translations, node \in SourceNodes, v \in ModelVectors \cup {NoneVec} :
        /\ etl_parse_osis(node) # << >>
        /\ LET row == etl_parse_osis(node)[1]
               ann == annotation(v, row.text)
           IN  /\ cur' = upsert_annotation(cur, tr, row.osis_id, ann, v)
               /\ last_annotation' =
                     Latest(last_annotation, <<row.osis_id, tr>>,
                            [f \in AnnotationDerived |->
                                IF f = "embedding" THEN v ELSE ann[f]])
    /\ n_upserts' = n_upserts + 1
    /\ UNCHANGED <<committed, last_verse, streamVars, scriptVars, patchVars, idemVars, runVars, fnVars>>

UpsertInit ==
    /\ cur \in {EmptyStore, StoreWith(<<OldVerse(<<"b">>)>>)}
    /\ committed = cur
    /\ last_verse = << >>
    /\ last_annotation = << >>
    /\ n_upserts = 0

UpsertIdle == last_verse = << >> /\ last_annotation = << >> /\ n_upserts = 0

\* ------------------------------- import_kjv_osis.py: main (patch if empty)

\* for row in parse_osis(OSIS_PATH): cur.execute(UPSERT_IF_EMPTY, row)
PatchRow ==
    /\ n_upserts < MaxUpserts
    /\ \E node \in SourceNodes :
        /\ osis_parse_osis(node) # << >>
        /\ cur' = UPSERT_IF_EMPTY(cur, osis_parse_osis(node)[1])
        /\ patch_rows' = osis_parse_osis(node)
    /\ before_patch' = cur
    /\ n_upserts' = n_upserts + 1
    /\ UNCHANGED <<committed, last_verse, last_annotation, streamVars, scriptVars, idemVars,
                   runVars, fnVars>>

\* conn.commit()
PatchCommit ==
    /\ n_upserts > 0
    /\ committed # cur
    /\ committed' = cur
    /\ UNCHANGED <<cur, upsertVars, patchVars, streamVars, scriptVars, idemVars, runVars, fnVars>>

PatchInit ==
    /\ cur \in {EmptyStore} \cup
               {StoreWith(<<OldVerse(t)>>) :
                    t \in {NoneStr, << >>, <<" ", " ">>, <<"\n">>, <<"b">>, <<" ", "b">>}}
    /\ committed = cur
    /\ before_patch = cur
    /\ patch_rows = << >>
    /\ last_verse = << >>
    /\ last_annotation = << >>
    /\ n_upserts = 0

PatchIdle == before_patch = EmptyStore /\ patch_rows = << >>

\* ------------------------- import_kjv.py / ETL: the same source, twice

\* for row in parse_usfx_stream(path): skip a row with empty text, else
\* cur.execute(UPSERT_SQL, row)
usfx_import(c, row) == IF row.text = << >> THEN c ELSE UPSERT_SQL(c, row)

\* Rows that parse_usfx_stream yields
UsfxRows ==
    {make_row(<<"Gen">>, <<"Genesis">>, 1, v, t) :
        v \in 1..2, t \in {<<"a">>, <<"a", " ", "b", ".">>}}

\* for row in parse_osis(path): cur.execute(UPSERT_SQL, row)
kjv_import(c, node) ==
    IF kjv_parse_osis(node) = << >> THEN c ELSE UPSERT_SQL(c, kjv_parse_osis(node)[1])

\* for row in parse_osis(path): upsert_verse(cur, "KJV", row)
etl_import(c, node) ==
    IF etl_parse_osis(node) = << >> THEN c ELSE upsert_verse(c, "KJV", etl_parse_osis(node)[1])

\* One iteration of "for row in parse_osis(path)" with its write
IdemRow ==
    /\ run_no \in {1, 2}
    /\ idx <= Len(source)
    /\ cur' = CASE writer = "kjv"  -> kjv_import(cur, source[idx])
                [] writer = "etl"  -> etl_import(cur, source[idx])
                [] writer = "usfx" -> usfx_import(cur, source[idx])
    /\ idx' = idx + 1
    /\ UNCHANGED <<committed, source, writer, run_no, after_first,
                   streamVars, scriptVars, upsertVars, patchVars, runVars, fnVars>>

\* The end of the loop: conn.commit(), and the run is over
IdemCommit ==
    /\ run_no \in {1, 2}
    /\ idx > Len(source)
    /\ committed' = cur
    /\ after_first' = IF run_no = 1 THEN cur ELSE after_first
    /\ run_no' = run_no + 1
    /\ idx' = 1
    /\ UNCHANGED <<cur, source, writer, streamVars, scriptVars, upsertVars, patchVars,
                   runVars, fnVars>>

Sources == UNION {[1..n -> SourceNodes] : n \in 1..MaxSource}
UsfxSources == UNION {[1..n -> UsfxRows] : n \in 1..MaxSource}

IdemInit ==
    /\ \/ writer \in {"kjv", "etl"} /\ source \in Sources
       \/ writer = "usfx" /\ source \in UsfxSources
    /\ run_no = 1
    /\ idx = 1
    /\ cur \in {EmptyStore, StoreWith(<<OldVerse(<<"b">>)>>)}
    /\ committed = cur
    /\ after_first = EmptyStore

IdemIdle ==
    /\ source = << >> /\ writer = "none" /\ run_no = 3 /\ idx = 1 /\ after_first = EmptyStore

\* ------------------------------------ etl_bibles_to_supabase.py: main
files == <<"KJV", "WEB", "ASV">>

\* use_embeddings = not args.no_embeddings and get_model() is not None
embeddings_unless_disabled(no_embeddings, model) == ~no_embeddings
embeddings_enabled(no_embeddings, model) == ~no_embeddings /\ model # "None"

\* embed_texts(texts): the model's fingerprints (outs), or with no model the
\* seeded pseudo-embeddings
embed_texts(model, texts, outs) ==
    IF model = "None" THEN [i \in 1..Len(texts) |-> PseudoVector] ELSE outs

\* What model.encode(texts) may return for n texts; it is called only when
\* use_embeddings holds
ModelOutputs(n) == IF use_embeddings THEN [1..n -> ModelVectors] ELSE {<< >>}

\* process_annotations(cur, texts, metas, use_embeddings), stopped after the
\* first upto queued rows (all of them unless it raises on the way)
process_annotations(c, texts, metas, use_emb, model, outs, upto) ==
    LET vecs == IF use_emb THEN embed_texts(model, texts, outs) ELSE << >>
        F[i \in 0..upto] ==
            IF i = 0 THEN c
            ELSE LET tr == metas[i][1]
                     osis_id == metas[i][2]
                     row == metas[i][3]
                     v_embed == IF vecs # << >> THEN vecs[i] ELSE NoneVec
                 IN  upsert_annotation(F[i - 1], tr, osis_id,
                                       annotation(v_embed, row.text), v_embed)
    IN  F[upto]

\* A connection in autocommit mode: every statement is durable at once
execute_commits(cm, c) == c

\* What is durable once a statement has been executed on tables that were
\* durable as cm and are now c.  psycopg2.connect() opens the connection
\* with autocommit off: nothing is durable before conn.commit().
after_execute(cm, c) == cm

\* ap.parse_args() ... sys.exit(1) without a DSN
EtlNoDsn ==
    /\ script = "etl" /\ pc = "start"
    /\ ~args.dsn
    /\ pc' = "exit"
    /\ UNCHANGED <<script, file_exists, args, model_installed, _model, use_embeddings,
                   file_idx, batch_texts, batch_meta, count, lost, written, annotated>>
    /\ UNCHANGED <<streamVars, scriptVars, storeVars, upsertVars, patchVars, idemVars, fnVars>>

\* use_embeddings = ...; conn = psycopg2.connect(args.dsn); cur = conn.cursor()
EtlStart ==
    /\ script = "etl" /\ pc = "start"
    /\ args.dsn
    /\ _model' = IF args.no_embeddings THEN _model ELSE get_model(_model, model_installed)
    /\ use_embeddings' = embeddings_enabled(args.no_embeddings, _model')
    /\ cur' = committed
    /\ pc' = "files"
    /\ file_idx' = 1
    /\ UNCHANGED <<script, file_exists, args, model_installed, batch_texts, batch_meta,
                   count, lost, committed, written, annotated>>
    /\ UNCHANGED <<streamVars, scriptVars, upsertVars, patchVars, idemVars, fnVars>>

\* A missing file that ends the run
EtlAbortMissing ==
    /\ script = "etl" /\ pc = "files"
    /\ file_idx <= Len(files)
    /\ ~file_exists[files[file_idx]]
    /\ pc' = "exit"
    /\ cur' = committed
    /\ UNCHANGED <<script, file_exists, args, model_installed, _model, use_embeddings,
                   file_idx, batch_texts, batch_meta, count, lost, committed, written, annotated>>
    /\ UNCHANGED <<streamVars, scriptVars, upsertVars, patchVars, idemVars, fnVars>>

\* if not path.exists(): print("[WARN] Missing file ..."); continue
EtlSkipMissing ==
    /\ script = "etl" /\ pc = "files"
    /\ file_idx <= Len(files)
    /\ ~file_exists[files[file_idx]]
    /\ file_idx' = file_idx + 1
    /\ UNCHANGED <<script, file_exists, args, model_installed, _model, use_embeddings,
                   pc, batch_texts, batch_meta, count, lost, written, annotated>>
    /\ UNCHANGED <<streamVars, scriptVars, storeVars, upsertVars, patchVars, idemVars, fnVars>>

\* for row in parse_osis(path): etree.parse has read the file
EtlOpenFile ==
    /\ script = "etl" /\ pc = "files"
    /\ file_idx <= Len(files)
    /\ file_exists[files[file_idx]]
    /\ pc' = "rows"
    /\ UNCHANGED <<script, file_exists, args, model_installed, _model, use_embeddings,
                   file_idx, batch_texts, batch_meta, count, lost, written, annotated>>
    /\ UNCHANGED <<streamVars, scriptVars, storeVars, upsertVars, patchVars, idemVars, fnVars>>

\* etree.parse(path) raises: the file cannot be read or is not well-formed
EtlParseFails ==
    /\ script = "etl" /\ pc = "files"
    /\ file_idx <= Len(files)
    /\ file_exists[files[file_idx]]
    /\ pc' = "failed"
    /\ lost' = cur
    /\ cur' = committed
    /\ UNCHANGED <<script, file_exists, args, model_installed, _model, use_embeddings,
                   file_idx, batch_texts, batch_meta, count, committed, written, annotated>>
    /\ UNCHANGED <<streamVars, scriptVars, upsertVars, patchVars, idemVars, fnVars>>

\* One iteration of "for row in parse_osis(path)": the verse is written and
\* queued, and a full batch is annotated and committed
EtlRow ==
    /\ script = "etl" /\ pc = "rows"
    /\ count < MaxRows
    /\ \E node \in SourceNodes :
        /\ etl_parse_osis(node) # << >>
        /\ LET tr == files[file_idx]
               row == etl_parse_osis(node)[1]
               c1 == upsert_verse(cur, tr, row)
               texts1 == Append(batch_texts, row.text)
               metas1 == Append(batch_meta, <<tr, row.osis_id, row>>)
           IN  /\ IF Len(texts1) >= args.commit_size
                  THEN \E outs \in ModelOutputs(Len(texts1)) :
                          /\ cur' = process_annotations(c1, texts1, metas1, use_embeddings,
                                        get_model(_model, model_installed), outs, Len(metas1))
                          /\ committed' = cur'
                          /\ batch_texts' = << >>
                          /\ batch_meta' = << >>
                          /\ annotated' = annotated \o [i \in 1..Len(metas1) |->
                                                          <<metas1[i][2], metas1[i][1]>>]
                  ELSE /\ cur' = c1
                       /\ committed' = after_execute(committed, c1)
                       /\ batch_texts' = texts1
                       /\ batch_meta' = metas1
                       /\ annotated' = annotated
               /\ written' = Append(written, <<row.osis_id, tr>>)
    /\ count' = count + 1
    /\ UNCHANGED <<script, file_exists, args, model_installed, _model, use_embeddings,
                   pc, file_idx, lost>>
    /\ UNCHANGED <<streamVars, scriptVars, upsertVars, patchVars, idemVars, fnVars>>

\* The same iteration with the exception caught and the loop continued
EtlRowSkipped ==
    /\ script = "etl" /\ pc = "rows"
    /\ count < MaxRows
    /\ \E node \in SourceNodes :
        /\ etl_parse_osis(node) # << >>
        /\ LET tr == files[file_idx]
               row == etl_parse_osis(node)[1]
               c1 == upsert_verse(cur, tr, row)
               texts1 == Append(batch_texts, row.text)
               metas1 == Append(batch_meta, <<tr, row.osis_id, row>>)
               due == Len(texts1) >= args.commit_size
           IN  \E failed_in \in {"upsert_verse"} \cup
                                (IF due THEN {"process_annotations", "commit"} ELSE {}) :
               \E upto \in (IF failed_in = "process_annotations"
                            THEN 0..(Len(metas1) - 1) ELSE {Len(metas1)}) :
               \E outs \in ModelOutputs(Len(texts1)) :
                   /\ lost' = IF failed_in = "upsert_verse" THEN cur
                              ELSE process_annotations(c1, texts1, metas1, use_embeddings,
                                       get_model(_model, model_installed), outs, upto)
                   /\ committed' = after_execute(committed, lost')
    /\ cur' = committed'
    /\ pc' = "rows"
    /\ UNCHANGED <<script, file_exists, args, model_installed, _model, use_embeddings,
                   file_idx, batch_texts, batch_meta, count, written, annotated>>
    /\ UNCHANGED <<streamVars, scriptVars, upsertVars, patchVars, idemVars, fnVars>>

\* The same iteration, raising: in upsert_verse, in process_annotations after
\* upto annotation rows, or in conn.commit().  The exception leaves main; the
\* connection goes without a commit.
EtlRowFails ==
    /\ script = "etl" /\ pc = "rows"
    /\ count < MaxRows
    /\ \E node \in SourceNodes :
        /\ etl_parse_osis(node) # << >>
        /\ LET tr == files[file_idx]
               row == etl_parse_osis(node)[1]
               c1 == upsert_verse(cur, tr, row)
               texts1 == Append(batch_texts, row.text)
               metas1 == Append(batch_meta, <<tr, row.osis_id, row>>)
               due == Len(texts1) >= args.commit_size
           IN  \E failed_in \in {"upsert_verse"} \cup
                                (IF due THEN {"process_annotations", "commit"} ELSE {}) :
               \E upto \in (IF failed_in = "process_annotations"
                            THEN 0..(Len(metas1) - 1) ELSE {Len(metas1)}) :
               \E outs \in ModelOutputs(Len(texts1)) :
                   /\ lost' = IF failed_in = "upsert_verse" THEN cur
                              ELSE process_annotations(c1, texts1, metas1, use_embeddings,
                                       get_model(_model, model_installed), outs, upto)
                   /\ committed' = after_execute(committed, lost')
    /\ cur' = committed'
    /\ pc' = "failed"
    /\ UNCHANGED <<script, file_exists, args, model_installed, _model, use_embeddings,
                   file_idx, batch_texts, batch_meta, count, written, annotated>>
    /\ UNCHANGED <<streamVars, scriptVars, upsertVars, patchVars, idemVars, fnVars>>

\* parse_osis(path) is exhausted: on to the next file
EtlEndOfFile ==
    /\ script = "etl" /\ pc = "rows"
    /\ pc' = "files"
    /\ file_idx' = file_idx + 1
    /\ UNCHANGED <<script, file_exists, args, model_installed, _model, use_embeddings,
                   batch_texts, batch_meta, count, lost, written, annotated>>
    /\ UNCHANGED <<streamVars, scriptVars, storeVars, upsertVars, patchVars, idemVars, fnVars>>

\* The end of main without the flush of the tail
EtlNoFlushTail ==
    /\ script = "etl" /\ pc = "files"
    /\ file_idx > Len(files)
    /\ cur' = committed
    /\ pc' = "done"
    /\ UNCHANGED <<script, file_exists, args, model_installed, _model, use_embeddings,
                   file_idx, batch_texts, batch_meta, count, lost, written, annotated,
                   committed>>
    /\ UNCHANGED <<streamVars, scriptVars, upsertVars, patchVars, idemVars, fnVars>>

\* Flush tail: if batch_texts: process_annotations(...); conn.commit();
\* then cur.close(); conn.close()
EtlFlushTail ==
    /\ script = "etl" /\ pc = "files"
    /\ file_idx > Len(files)
    /\ IF batch_texts # << >>
       THEN \E outs \in ModelOutputs(Len(batch_texts)) :
               /\ cur' = process_annotations(cur, batch_texts, batch_meta, use_embeddings,
                             get_model(_model, model_installed), outs, Len(batch_meta))
               /\ committed' = cur'
               /\ annotated' = annotated \o [i \in 1..Len(batch_meta) |->
                                               <<batch_meta[i][2], batch_meta[i][1]>>]
       ELSE /\ cur' = committed
            /\ committed' = committed
            /\ annotated' = annotated
    /\ pc' = "done"
    /\ UNCHANGED <<script, file_exists, args, model_installed, _model, use_embeddings,
                   file_idx, batch_texts, batch_meta, count, lost, written>>
    /\ UNCHANGED <<streamVars, scriptVars, upsertVars, patchVars, idemVars, fnVars>>

\* The flush raising, in process_annotations or in conn.commit()
EtlTailFails ==
    /\ script = "etl" /\ pc = "files"
    /\ file_idx > Len(files)
    /\ batch_texts # << >>
    /\ \E upto \in 0..Len(batch_meta) :
       \E outs \in ModelOutputs(Len(batch_texts)) :
           /\ lost' = process_annotations(cur, batch_texts, batch_meta, use_embeddings,
                          get_model(_model, model_installed), outs, upto)
           /\ committed' = after_execute(committed, lost')
    /\ cur' = committed'
    /\ pc' = "failed"
    /\ UNCHANGED <<script, file_exists, args, model_installed, _model, use_embeddings,
                   file_idx, batch_texts, batch_meta, count, written, annotated>>
    /\ UNCHANGED <<streamVars, scriptVars, upsertVars, patchVars, idemVars, fnVars>>

\* --------------------------- import_kjv_usfx.py, import_kjv.py: main
\* rows % 2000 == 0
CommitEvery == 2000

\* if not PATH.exists(): print("Missing file ..."); sys.exit(1)
ImportExit ==
    /\ script \in {"usfx", "kjv"} /\ pc = "start"
    /\ ~file_exists["KJV"]
    /\ pc' = "exit"
    /\ UNCHANGED <<script, file_exists, args, model_installed, _model, use_embeddings,
                   file_idx, batch_texts, batch_meta, count, lost, written, annotated>>
    /\ UNCHANGED <<streamVars, scriptVars, storeVars, upsertVars, patchVars, idemVars, fnVars>>

\* conn = psycopg2.connect(DB_DSN); cur = conn.cursor()
ImportConnect ==
    /\ script \in {"usfx", "kjv"} /\ pc = "start"
    /\ file_exists["KJV"]
    /\ pc' = "rows"
    /\ cur' = committed
    /\ UNCHANGED <<script, file_exists, args, model_installed, _model, use_embeddings,
                   file_idx, batch_texts, batch_meta, count, lost, committed, written, annotated>>
    /\ UNCHANGED <<streamVars, scriptVars, upsertVars, patchVars, idemVars, fnVars>>

\* One iteration of the loop over the extractor's rows
ImportRow ==
    /\ script \in {"usfx", "kjv"} /\ pc = "rows"
    /\ count < MaxRows
    /\ \/ /\ script = "usfx"
          /\ \E row \in UsfxRows :
              /\ row.text # << >>
              /\ cur' = usfx_import(cur, row)
       \/ /\ script = "kjv"
          /\ \E node \in SourceNodes :
              /\ kjv_parse_osis(node) # << >>
              /\ cur' = kjv_import(cur, node)
    /\ count' = count + 1
    /\ committed' = IF count' % CommitEvery = 0 THEN cur'
                    ELSE after_execute(committed, cur')
    /\ UNCHANGED <<script, file_exists, args, model_installed, _model, use_embeddings,
                   pc, file_idx, batch_texts, batch_meta, lost, written, annotated>>
    /\ UNCHANGED <<streamVars, scriptVars, upsertVars, patchVars, idemVars, fnVars>>

\* The loop is over: conn.commit(); cur.close(); conn.close()
ImportFinish ==
    /\ script \in {"usfx", "kjv"} /\ pc = "rows"
    /\ committed' = cur
    /\ pc' = "done"
    /\ UNCHANGED <<script, file_exists, args, model_installed, _model, use_embeddings,
                   file_idx, batch_texts, batch_meta, count, lost, cur, written, annotated>>
    /\ UNCHANGED <<streamVars, scriptVars, upsertVars, patchVars, idemVars, fnVars>>

\* The extractor or a statement raises: the connection is closed uncommitted
ImportFails ==
    /\ script \in {"usfx", "kjv"} /\ pc = "rows"
    /\ lost' = cur
    /\ cur' = committed
    /\ pc' = "failed"
    /\ UNCHANGED <<script, file_exists, args, model_installed, _model, use_embeddings,
                   file_idx, batch_texts, batch_meta, count, committed, written, annotated>>
    /\ UNCHANGED <<streamVars, scriptVars, upsertVars, patchVars, idemVars, fnVars>>

NoArgs == [dsn |-> TRUE, no_embeddings |-> FALSE, commit_size |-> 1]

\* --commit-size is any int (type=int, default 2000); 0 stands for every
\* value below 1, for which len(batch_texts) >= args.commit_size always holds.
RunInit ==
    /\ script \in {"etl", "usfx", "kjv"}
    /\ file_exists \in [{"KJV", "WEB", "ASV"} -> BOOLEAN]
    /\ script # "etl" => file_exists["WEB"] /\ file_exists["ASV"]
    /\ args \in [dsn : BOOLEAN, no_embeddings : BOOLEAN, commit_size : 0..MaxCommit]
    /\ script # "etl" => args = NoArgs
    /\ model_installed \in BOOLEAN
    /\ script # "etl" => ~model_installed
    /\ _model = "None"
    /\ use_embeddings = FALSE
    /\ pc = "start"
    /\ file_idx = 1
    /\ batch_texts = << >>
    /\ batch_meta = << >>
    /\ count = 0
    /\ lost = EmptyStore
    /\ written = << >>
    /\ annotated = << >>
    /\ cur = EmptyStore
    /\ committed = EmptyStore

RunIdle ==
    /\ script = "none"
    /\ file_exists = [tr \in {"KJV", "WEB", "ASV"} |-> TRUE]
    /\ args = NoArgs
    /\ model_installed = FALSE
    /\ _model = "None"
    /\ use_embeddings = FALSE
    /\ pc = "done"
    /\ file_idx = 1
    /\ batch_texts = << >>
    /\ batch_meta = << >>
    /\ count = 0
    /\ lost = EmptyStore
    /\ written = << >>
    /\ annotated = << >>

\* ------------------ etl_bibles_to_supabase.py: one row's annotation
\* Texts with and without the keywords of the taggers and of the safety
\* patterns
KeywordTexts ==
    {<< >>,
     <<"a">>,
     <<"s", "w", "o", "r", "d">>,
     <<"S", "w", "o", "r", "d", ".">>,
     <<"a", " ", "s", "w", "o", "r", "d">>,
     <<"s", "w", "o", "r", "d", "s">>,
     <<"l", "u", "s", "t">>,
     <<"s", "l", "a", "v", "e", " ", "w", "o", "e">>,
     <<"R", "e", "s", "t">>,
     <<"h", "o", "p", "e", " ", "t", "r", "u", "s", "t", " ", "w", "i", "s", "d", "o", "m", " ", "r", "e", "s", "t">>,
     <<"f", "e", "a", "r", " ", "w", "e", "a", "r", "y", " ", "p", "r", "a", "i", "s", "e">>}

\* Texts of every length up to MaxTextLen
LengthTexts == {[i \in 1..L |-> "a"] : L \in 0..MaxTextLen}

\* Fingerprints from the model: theme similarities that leave none, some or
\* all themes at or above the floor, with and without ties
ThemeVectors ==
    {[src |-> "model", theme_sims |-> sims, theme_top |-> top,
      mood_sims |-> Sims(9, 0, (2 :> 50) @@ (1 :> 40)), mood_top |-> <<2, 1>>,
      daypart_sims |-> <<0, 0, 0, 0>>, tone_sims |-> <<0, 0, 0, 0, 0>>] :
        sims \in {[i \in 1..15 |-> IF i = 1 THEN a ELSE IF i = 8 THEN b
                                   ELSE IF i = 15 THEN c ELSE offset - i] :
                     a \in {24, 25, 60}, b \in {24, 25, 60}, c \in {24, 25, 60},
                     offset \in {0, 50}},
        top \in [1..3 -> {1, 2, 3, 4, 8, 15}]}

MoodVectors ==
    {[src |-> "model", theme_sims |-> Sims(15, 10, (3 :> 20)), theme_top |-> <<3, 15, 14>>,
      mood_sims |-> sims, mood_top |-> top,
      daypart_sims |-> <<0, 0, 0, 0>>, tone_sims |-> <<0, 0, 0, 0, 0>>] :
        sims \in {[i \in 1..9 |-> IF i = 1 THEN a ELSE IF i = 9 THEN b ELSE 0 - i] :
                     a \in {0, 30}, b \in {0, 30}},
        top \in [1..2 -> {1, 2, 3, 9}]}

ProbVectors ==
    {[src |-> "model", theme_sims |-> Sims(15, 10, (3 :> 20)), theme_top |-> <<3, 15, 14>>,
      mood_sims |-> Sims(9, 0, (5 :> 30) @@ (6 :> 20)), mood_top |-> <<5, 6>>,
      daypart_sims |-> d, tone_sims |-> t] :
        d \in [1..4 -> {-10, 0, 10}],
        t \in {<<0, 0, 0, 0, 0>>, <<10, -10, 0, 5, -5>>}}

AnnVectors ==
    {NoneVec}
    \cup {v \in ThemeVectors : IsArgsortTop(v.theme_sims, v.theme_top)}
    \cup {v \in MoodVectors : IsArgsortTop(v.mood_sims, v.mood_top)}
    \cup ProbVectors

NoAnn == [themes |-> << >>]

\* ann = {"themes": ..., "moods": ..., ..., "familiarity": ...}
Annotate ==
    /\ ann_out = NoAnn
    /\ ann_out' = annotation(ann_vec, ann_text)
    /\ UNCHANGED <<ann_vec, ann_text, tree, extractor, node_idx, yielded,
                   _tag_centroids, label_embeds>>
    /\ UNCHANGED <<streamVars, scriptVars, storeVars, upsertVars, patchVars, idemVars,
                   runVars>>

\* A process that has not embedded any label yet
NoLabelEmbeds == [theme |-> 0, mood |-> 0, daypart |-> 0, tone |-> 0]
CentroidsInit == _tag_centroids = "None" /\ label_embeds = NoLabelEmbeds

AnnInit ==
    /\ \/ ann_vec \in AnnVectors /\ ann_text \in KeywordTexts
       \/ ann_vec \in {NoneVec} \cup ModelVectors /\ ann_text \in LengthTexts
    /\ ann_out = NoAnn
    /\ CentroidsInit

AnnIdle == ann_vec = NoneVec /\ ann_text = << >> /\ ann_out = NoAnn /\ CentroidsInit

\* build_tag_centroids(): the cache and the calls of embed_texts(labels) after it
build_tag_centroids(cached, calls) ==
    IF cached # "None" THEN [cache |-> cached, calls |-> calls]
    ELSE [cache |-> "built", calls |-> [calls EXCEPT !.theme = @ + 1]]

\* The cache and the calls after the four classifiers have run for one verse:
\* with v_embed = None none of them embeds a label; otherwise
\* theme_tags_from_semantics goes through build_tag_centroids, and
\* mood_tags_from_semantics, daypart_probs_from_semantics and
\* tone_probs_from_semantics each call embed_texts(labels)
embed_labels(v_embed, cached, calls) ==
    IF v_embed = NoneVec THEN [cache |-> cached, calls |-> calls]
    ELSE LET themes == build_tag_centroids(cached, calls)
         IN  [cache |-> themes.cache,
              calls |-> [themes.calls EXCEPT !.mood = @ + 1, !.daypart = @ + 1,
                                             !.tone = @ + 1]]

\* One iteration of the loop of process_annotations, in a process that
\* annotates verse after verse
AnnotateVerse ==
    \E v_embed \in {NoneVec} \cup ModelVectors, row_text \in KeywordTexts :
        /\ v_embed # NoneVec => label_embeds.mood < MaxAnnotated
        /\ ann_vec' = v_embed
        /\ ann_text' = row_text
        /\ ann_out' = annotation(v_embed, row_text)
        /\ _tag_centroids' = embed_labels(v_embed, _tag_centroids, label_embeds).cache
        /\ label_embeds' = embed_labels(v_embed, _tag_centroids, label_embeds).calls
        /\ UNCHANGED <<tree, extractor, node_idx, yielded>>
        /\ UNCHANGED <<streamVars, scriptVars, storeVars, upsertVars, patchVars, idemVars, runVars>>

\* ----------------------- parse_osis: a DOM extractor run over one file
\* Verse nodes of a file: a well-formed verse and its successor, the same
\* verse with blank text, an identifier with two segments, chapter and
\* verse tokens with no digits, a book code outside BOOK_NAME_MAP, a signed
\* chapter token, and the spelling book.chX.vY of verse 1 of chapter 1.
DomNodes ==
    {Node(Gen_1_1, <<<<"a">>>>),
     Node(Gen_1_2, <<<<"b">>>>),
     Node(Gen_1_1, <<<<" ">>>>),
     Node(<<"Gen", ".", "1">>, <<<<"a">>>>),
     Node(<<"Gen", ".", "x", ".", "y">>, <<<<"a">>>>),
     Node(<<"Xyz", ".", "1", ".", "1">>, <<<<"a">>>>),
     Node(<<"Gen", ".", "-", "1", ".", "1">>, <<<<"a">>>>),
     Node(<<"Gen", ".", "c", "1", ".", "v", "1">>, <<<<"a">>>>)}

Trees == UNION {[1..n -> DomNodes] : n \in 1..MaxNodes}

\* parse_osis yielding a row for an identifier of fewer than 3 segments too
parse_osis_keeps_malformed(ext, node) ==
    IF Len(split(node.osisID, ".")) < 3
    THEN <<[osis_id |-> node.osisID, book |-> split(node.osisID, ".")[1],
            chapter |-> 0, verse |-> 0, text |-> extract_plain_text(node)]>>
    ELSE CASE ext = "kjv" -> kjv_parse_osis(node)
           [] ext = "osis" -> osis_parse_osis(node)
           [] ext = "etl" -> etl_parse_osis(node)

\* parse_osis of the script named by ext, on one node of the xpath result
parse_osis(ext, node) ==
    CASE ext = "kjv" -> kjv_parse_osis(node)
      [] ext = "osis" -> osis_parse_osis(node)
      [] ext = "etl" -> etl_parse_osis(node)

\* One pass of the loop body that reaches the yield
DomYield ==
    /\ extractor # "none"
    /\ node_idx <= Len(tree)
    /\ parse_osis(extractor, tree[node_idx]) # << >>
    /\ yielded' = yielded \o parse_osis(extractor, tree[node_idx])
    /\ node_idx' = node_idx + 1
    /\ UNCHANGED <<ann_vec, ann_text, ann_out, tree, extractor, _tag_centroids, label_embeds>>
    /\ UNCHANGED <<streamVars, scriptVars, storeVars, upsertVars, patchVars, idemVars, runVars>>

\* One pass of the loop body that ends in a continue
DomContinue ==
    /\ extractor # "none"
    /\ node_idx <= Len(tree)
    /\ parse_osis(extractor, tree[node_idx]) = << >>
    /\ node_idx' = node_idx + 1
    /\ UNCHANGED <<ann_vec, ann_text, ann_out, tree, extractor, yielded,
                   _tag_centroids, label_embeds>>
    /\ UNCHANGED <<streamVars, scriptVars, storeVars, upsertVars, patchVars, idemVars, runVars>>

DomInit ==
    /\ tree \in Trees
    /\ extractor \in {"kjv", "osis", "etl"}
    /\ node_idx = 1
    /\ yielded = << >>

\* ------------------------------------- the extractor run on a given document

StartEv(name, id, number, text) ==
    [kind |-> "start", name |-> name, attrib |-> [id |-> id, number |-> number], text |-> text]
EndEv(name, tail) ==
    [kind |-> "end", name |-> name, attrib |-> NoAttrs, text |-> tail]

\* <v id=.../> followed by tail
Milestone(name, id, tail) == <<StartEv(name, id, << >>, << >>), EndEv(name, tail)>>

\* A milestone-dialect fragment: inside a known book and chapter 1, an
\* optional earlier verse 3 with text d.pre, a verse marker d.v1 followed only
\* by the blank d.gap, a verse marker d.v2 followed by d.text, then the
\* boundary d.closer (a verse marker, a chapter marker or the book end).
BoundaryEvents(d) ==
    <<StartEv("book", d.book, << >>, <<"\n">>)>>
    \o Milestone("c", <<"1">>, <<"\n">>)
    \o (IF d.pre # << >> THEN Milestone("v", <<"3">>, d.pre) ELSE << >>)
    \o Milestone("v", d.v1, d.gap)
    \o Milestone("v", d.v2, d.text)
    \o (IF d.closer = "verse" THEN Milestone("v", <<"4">>, << >>)
        ELSE IF d.closer = "chapter" THEN Milestone("c", <<"2">>, << >>)
        ELSE << >>)
    \o <<EndEv("book", << >>)>>

BoundaryDocs ==
    [kind : {"boundary"}, book : {<<"GEN">>, <<"EXO">>},
     pre : {<< >>, <<"b">>},
     v1 : {<<"1">>, <<"2">>}, gap : {<< >>, <<"\n">>},
     v2 : {<<"1">>, <<"2">>}, text : {<<"a">>, <<" ", "b">>, <<"a", "\n", "b">>},
     closer : {"verse", "chapter", "bookend"}]

\* One verse whose content is the text pieces d.pieces, split at the
\* boundaries of one inline child element: pieces[1] before the child,
\* pieces[2] inside it, pieces[3] after it.
\* Milestone dialect: <book id=B><c id=C/><v id=V/>p1<add>p2</add>p3</book>
EquivEvents(d) ==
    <<StartEv("book", d.usfx, << >>, << >>)>>
    \o Milestone("c", d.ch, << >>)
    \o Milestone("v", d.vs, d.pieces[1])
    \o (IF Len(d.pieces) >= 2
        THEN <<StartEv("add", << >>, << >>, d.pieces[2]),
               EndEv("add", IF Len(d.pieces) >= 3 THEN d.pieces[3] ELSE << >>)>>
        ELSE << >>)
    \o <<EndEv("book", << >>)>>

\* DOM dialect: <verse osisID="B.C.V">p1<hi>p2</hi>p3</verse>
EquivNode(d) ==
    [osisID   |-> d.osis \o <<".">> \o d.ch \o <<".">> \o d.vs,
     itertext |-> SelectSeq(d.pieces, LAMBDA t : t # << >>)]

Pieces == {<< >>, <<"a">>, <<"a", " ">>, <<"\n", "b">>}
EquivDocs ==
    {[kind |-> "equiv", usfx |-> b[1], osis |-> b[2], ch |-> c, vs |-> v, pieces |-> ps] :
        b \in {<<<<"GEN">>, <<"Gen">>>>, <<<<"EXO">>, <<"Exod">>>>},
        c \in {<<"1">>, <<"2">>}, v \in {<<"1">>, <<"2">>},
        ps \in [1..1 -> Pieces] \cup [1..2 -> Pieces] \cup [1..3 -> Pieces]}

\* A book of the milestone dialect as the sequence d.markers of its chapter
\* and verse markers, each followed by its text:
\* <book id="GEN"><c id="1"/><v id="1"/>a<c id="x"/><v id="1"/>a ...</book>
MarkerEvents(d) ==
    LET F[i \in 0..Len(d.markers)] ==
            IF i = 0 THEN <<StartEv("book", d.book, << >>, << >>)>>
            ELSE F[i - 1] \o Milestone(d.markers[i].name, d.markers[i].id, d.markers[i].tail)
    IN  F[Len(d.markers)] \o <<EndEv("book", << >>)>>

\* Chapter markers 1 and x (a token with no digits); verse markers 1, 2 and x
Markers ==
    {[name |-> "c", id |-> <<"1">>, tail |-> << >>],
     [name |-> "c", id |-> <<"x">>, tail |-> << >>],
     [name |-> "v", id |-> <<"1">>, tail |-> <<"a">>],
     [name |-> "v", id |-> <<"1">>, tail |-> << >>],
     [name |-> "v", id |-> <<"2">>, tail |-> <<"b">>],
     [name |-> "v", id |-> <<"x">>, tail |-> <<"a">>]}
MarkerDocs ==
    [kind : {"markers"}, book : {<<"GEN">>},
     markers : UNION {[1..n -> Markers] : n \in 1..MaxMarkers}]

\* Verse 1 of chapter 1 of a book, whose content is the text d.pre, one
\* inline element d.name holding d.inner, and the text d.post after its close:
\* <book id="GEN"><c id="1"/><v id="1"/>pre<f>inner</f>post</book>
InlineEvents(d) ==
    <<StartEv("book", <<"GEN">>, << >>, << >>)>>
    \o Milestone("c", <<"1">>, << >>)
    \o Milestone("v", <<"1">>, d.pre)
    \o <<StartEv(d.name, << >>, << >>, d.inner), EndEv(d.name, d.post)>>
    \o <<EndEv("book", << >>)>>

InlineDocs ==
    [kind : {"inline"}, name : {"add", "f", "x", "note"},
     pre : {<< >>, <<"a">>}, inner : {<< >>, <<"n">>, <<"\n">>},
     post : {<< >>, <<"\n">>, <<"b">>, <<" ", "b", " ">>}]

\* Two books of one verse each, with text outside them: d.lead before the
\* first book, d.between after its closing tag, d.trail after the second's.
\* Text outside a book is written with the letter o.
\* <usfx>lead<book id="GEN"><c id="1"/><v id="1"/>a</book>between<book ...>
OutsideEvents(d) ==
    <<StartEv("usfx", << >>, << >>, d.lead)>>
    \o <<StartEv("book", <<"GEN">>, << >>, << >>)>>
    \o Milestone("c", <<"1">>, << >>)
    \o Milestone("v", <<"1">>, d.first)
    \o <<EndEv("book", d.between)>>
    \o <<StartEv("book", <<"EXO">>, << >>, << >>)>>
    \o Milestone("c", <<"1">>, << >>)
    \o Milestone("v", <<"1">>, <<"b">>)
    \o <<EndEv("book", d.trail)>>
    \o <<EndEv("usfx", << >>)>>

OutsideTexts == {<< >>, <<"\n">>, <<"o">>, <<"\n", "o", "\n">>}
OutsideDocs ==
    [kind : {"outside"}, lead : OutsideTexts, first : {<< >>, <<"a">>},
     between : OutsideTexts, trail : OutsideTexts]

Events(d) ==
    IF d.kind = "boundary" THEN BoundaryEvents(d)
    ELSE IF d.kind = "equiv" THEN EquivEvents(d)
    ELSE IF d.kind = "markers" THEN MarkerEvents(d)
    ELSE IF d.kind = "inline" THEN InlineEvents(d)
    ELSE IF d.kind = "outside" THEN OutsideEvents(d)
    ELSE << >>

Finished == pos > Len(Events(doc))

ScriptStart ==
    /\ ~Finished
    /\ Events(doc)[pos].kind = "start"
    /\ on_start(Events(doc)[pos].name, Events(doc)[pos].attrib, Events(doc)[pos].text)
    /\ pos' = pos + 1
    /\ UNCHANGED <<doc, stack, nEvents, storeVars, upsertVars, patchVars, idemVars, runVars, fnVars>>

ScriptEnd ==
    /\ ~Finished
    /\ Events(doc)[pos].kind = "end"
    /\ on_end(Events(doc)[pos].name, Events(doc)[pos].text)
    /\ pos' = pos + 1
    /\ UNCHANGED <<doc, stack, nEvents, storeVars, upsertVars, patchVars, idemVars, runVars, fnVars>>

ScriptNext == ScriptStart \/ ScriptEnd

NoScript == doc = [kind |-> "none"] /\ pos = 1

\* ----------------------------------------------------------- specifications
DomIdle == tree = << >> /\ extractor = "none" /\ node_idx = 1 /\ yielded = << >>
FnIdle == AnnIdle /\ DomIdle
vars == <<streamVars, scriptVars, storeVars, upsertVars, patchVars, idemVars, runVars, fnVars>>

StoreIdle == cur = EmptyStore /\ committed = EmptyStore
WritersIdle == UpsertIdle /\ PatchIdle /\ IdemIdle /\ RunIdle /\ FnIdle

\* parse_usfx_stream on the events of an arbitrary well-formed document
Init == StreamInit /\ NoScript /\ StoreIdle /\ WritersIdle
Next == StreamNext
Spec == Init /\ [][Next]_vars

\* parse_usfx_stream on the boundary fragments
InitBoundary == StreamInit /\ doc \in BoundaryDocs /\ pos = 1 /\ StoreIdle /\ WritersIdle
SpecBoundary == InitBoundary /\ [][ScriptNext]_vars

\* parse_usfx_stream and parse_osis on the two encodings of one verse
InitEquiv == StreamInit /\ doc \in EquivDocs /\ pos = 1 /\ StoreIdle /\ WritersIdle
SpecEquiv == InitEquiv /\ [][ScriptNext]_vars

\* any sequence of upsert_verse and upsert_annotation
InitUpsert == StreamInit /\ NoScript /\ UpsertInit /\ PatchIdle /\ IdemIdle /\ RunIdle /\ FnIdle
NextUpsert ==
    \/ UpsertVerse
    \/ UpsertAnnotation
SpecUpsert == InitUpsert /\ [][NextUpsert]_vars

\* import_kjv_osis.py main on a store that holds a verse already, or not
InitPatch == StreamInit /\ NoScript /\ PatchInit /\ IdemIdle /\ RunIdle /\ FnIdle
NextPatch ==
    \/ PatchRow
    \/ PatchCommit
SpecPatch == InitPatch /\ [][NextPatch]_vars

\* an importer run twice on one source
InitIdem == StreamInit /\ NoScript /\ IdemInit /\ UpsertIdle /\ PatchIdle /\ RunIdle /\ FnIdle
NextIdem ==
    \/ IdemRow
    \/ IdemCommit
SpecIdem == InitIdem /\ [][NextIdem]_vars

\* the annotation of one row
InitAnnotate ==
    /\ StreamInit /\ NoScript /\ StoreIdle /\ UpsertIdle /\ PatchIdle /\ IdemIdle /\ RunIdle
    /\ AnnInit /\ DomIdle
NextAnnotate == Annotate
SpecAnnotate == InitAnnotate /\ [][NextAnnotate]_vars

\* parse_usfx_stream on any sequence of chapter and verse markers of a book
InitMarkers == StreamInit /\ doc \in MarkerDocs /\ pos = 1 /\ StoreIdle /\ WritersIdle
SpecMarkers == InitMarkers /\ [][ScriptNext]_vars

\* parse_usfx_stream on a verse with one inline element
InitInline == StreamInit /\ doc \in InlineDocs /\ pos = 1 /\ StoreIdle /\ WritersIdle
SpecInline == InitInline /\ [][ScriptNext]_vars

\* parse_usfx_stream on a file with text outside its books
InitOutside == StreamInit /\ doc \in OutsideDocs /\ pos = 1 /\ StoreIdle /\ WritersIdle
SpecOutside == InitOutside /\ [][ScriptNext]_vars

\* process_annotations over the verses of a process
InitCentroids ==
    /\ StreamInit /\ NoScript /\ StoreIdle /\ UpsertIdle /\ PatchIdle /\ IdemIdle /\ RunIdle
    /\ AnnIdle /\ DomIdle
NextCentroids == AnnotateVerse
SpecCentroids == InitCentroids /\ [][NextCentroids]_vars

\* one DOM extractor over one file
InitDom ==
    /\ StreamInit /\ NoScript /\ StoreIdle /\ UpsertIdle /\ PatchIdle /\ IdemIdle /\ RunIdle
    /\ AnnIdle /\ DomInit
NextDom == DomYield \/ DomContinue
SpecDom == InitDom /\ [][NextDom]_vars

\* a run of one of the importers
InitRun ==
    StreamInit /\ NoScript /\ RunInit /\ UpsertIdle /\ PatchIdle /\ IdemIdle /\ FnIdle
NextRun ==
    \/ EtlNoDsn
    \/ EtlStart
    \/ EtlSkipMissing
    \/ EtlOpenFile
    \/ EtlParseFails
    \/ EtlRow
    \/ EtlRowFails
    \/ EtlEndOfFile
    \/ EtlFlushTail
    \/ EtlTailFails
    \/ ImportExit
    \/ ImportConnect
    \/ ImportRow
    \/ ImportFinish
    \/ ImportFails
SpecRun == InitRun /\ [][NextRun]_vars

\* ------------------------------------------------------------------ claims
canonical(t) == strip(collapse_ws(t))

\* C1: no text of a note or cross-reference subtree is in the verse buffer
\* or in the text of an emitted row.
HasNoteText(s) == \E i \in 1..Len(s) : s[i] = "n"
C1_NoNoteLeak ==
    /\ \A i \in 1..Len(buffer) : ~HasNoteText(buffer[i])
    /\ \A i \in 1..Len(emitted) : ~HasNoteText(emitted[i].text)

\* C2: in the boundary fragment the empty verse marker yields no row and the
\* following verse exactly one, with the later marker's number and only its
\* own text: the rows emitted are those of the earlier verse with text (if
\* any) and then the one of the following verse, and nothing else.
BoundaryRows(d) ==
    (IF d.pre # << >> THEN <<[verse |-> 3, text |-> canonical(d.pre)]>> ELSE << >>)
    \o <<[verse |-> int(d.v2), text |-> canonical(d.text)]>>
EmittedVerses == [i \in 1..Len(emitted) |-> [verse |-> emitted[i].verse, text |-> emitted[i].text]]
IsPrefix(p, q) == Len(p) <= Len(q) /\ SubSeq(q, 1, Len(p)) = p
C2_BoundaryCase ==
    /\ IsPrefix(EmittedVerses, BoundaryRows(doc))
    /\ Finished => /\ EmittedVerses = BoundaryRows(doc)
                   /\ \A i \in 1..Len(emitted) :
                        /\ emitted[i].chapter = 1
                        /\ emitted[i].book = get(OSIS_TO_NAME, get(USFX_TO_OSIS, doc.book, NoneStr), NoneStr)
C2_Witness ==
    /\ Finished
    /\ doc.v1 = <<"1">> /\ doc.v2 = <<"2">> /\ doc.gap = <<"\n">>
    /\ doc.text = <<"a", "\n", "b">> /\ doc.pre = << >>
    /\ Len(emitted) = 1 /\ emitted[1].verse = 2 /\ emitted[1].text = <<"a", " ", "b">>

\* C3: every emitted row has non-empty canonical text.
C3_EmittedNonEmpty == \A i \in 1..Len(emitted) : emitted[i].text # << >>
C3_Witness ==
    /\ Len(emitted) >= 1
    /\ emitted[Len(emitted)].text = <<"b">>
    /\ current_verse # NoneInt /\ buffer = << >>

\* C4: for one verse content in both dialects, the row of the DOM extractor
\* and the row of the streaming extractor with the same identifier agree on
\* book, chapter, verse and canonical text.
C4_CrossDialect ==
    Finished =>
        \A i \in 1..Len(emitted) : \A r \in {kjv_parse_osis(EquivNode(doc))[1]} :
            emitted[i].osis_id = r.osis_id =>
                /\ emitted[i].book = r.book
                /\ emitted[i].chapter = r.chapter
                /\ emitted[i].verse = r.verse
                /\ emitted[i].text = r.text

\* C5: in the ETL the verse rows and the annotation rows of a batch become
\* durable in one commit: the committed tables never hold a verse row of the
\* run without its annotation row, or the reverse, and a step that fails
\* commits nothing.
C5_BatchAtomic ==
    /\ [](script = "etl" =>
            KeysOf(committed.verses) = KeysOf(committed.verse_annotations))
    /\ [][script = "etl" /\ pc' = "failed" => committed' = committed]_vars

\* A batch has been committed, and a later batch has failed after its verse
\* row was written and before the annotation row was.
C5_Witness ==
    /\ script = "etl"
    /\ pc = "failed"
    /\ committed.verses # << >>
    /\ KeysOf(lost.verses) # KeysOf(lost.verse_annotations)
    /\ KeysOf(lost.verses) # KeysOf(committed.verses)

RowsOf(store, tr) ==
    {i \in 1..Len(store.verses) : store.verses[i].translation = tr}
    \cup {i \in 1..Len(store.verse_annotations) :
            store.verse_annotations[i].translation = tr}

\* C7, as stated: in a run where a configured source file is missing no row
\* is written or committed for any file.
C7_MissingIsFatal ==
    (\E tr \in DOMAIN file_exists : ~file_exists[tr]) =>
        cur = EmptyStore /\ committed = EmptyStore

\* C7: a missing source file ends import_kjv_usfx.py and import_kjv.py before
\* they connect, with no row written.  The ETL passes over a missing file: no
\* row of that translation is written, the run goes on with the other files,
\* and it exits early only for want of a DSN.
C7_MissingFile ==
    /\ script \in {"usfx", "kjv"} /\ ~file_exists["KJV"] =>
          /\ pc \in {"start", "exit"}
          /\ cur = EmptyStore /\ committed = EmptyStore
    /\ script = "etl" =>
          /\ \A tr \in DOMAIN file_exists :
                ~file_exists[tr] =>
                    RowsOf(cur, tr) = {} /\ RowsOf(committed, tr) = {} /\ RowsOf(lost, tr) = {}
          /\ pc = "exit" => ~args.dsn

\* The ETL has run to its end without the first file, and has committed rows
\* of a later one.
C7_Witness ==
    /\ script = "etl"
    /\ ~file_exists["KJV"]
    /\ pc = "done"
    /\ RowsOf(committed, "WEB") # {}

KeywordThemes == {"comfort", "hope", "trust", "wisdom"}
KeywordMoods == {"anxious", "tired", "grateful", "hopeful"}
Labels(tags) == {tags[i] : i \in 1..Len(tags)}

\* C8: an annotation row holds an embedding if and only if the run's batches
\* are fingerprinted by the real model; otherwise its embedding is absent,
\* its tags are those of the keyword heuristics and its distributions are the
\* fixed priors.  A pseudo-embedding is never stored.
C8_Provenance ==
    script = "etl" =>
        \A store \in {cur, committed, lost} :
            \A i \in 1..Len(store.verse_annotations) :
                LET a == store.verse_annotations[i] IN
                /\ a.embedding.src \in {"model", "none"}
                /\ a.embedding.src = "model" <=>
                      (~args.no_embeddings /\ model_installed /\ _model = "MiniLM")
                /\ a.embedding.src = "none" =>
                      /\ a.embedding = NoneVec
                      /\ a.daypart_probs = <<<<3, 10>>, <<4, 10>>, <<2, 10>>, <<1, 10>>>>
                      /\ a.tone_probs = <<<<4, 10>>, <<3, 10>>, <<1, 10>>, <<1, 10>>, <<1, 10>>>>
                      /\ Labels(a.themes) \subseteq KeywordThemes
                      /\ Labels(a.moods) \subseteq KeywordMoods

\* Embeddings were asked for, the model could not be loaded, and the run has
\* gone on to commit annotation rows.
C8_Witness ==
    /\ script = "etl"
    /\ pc = "done"
    /\ ~args.no_embeddings
    /\ ~model_installed
    /\ committed.verse_annotations # << >>
    /\ \E i \in 1..Len(committed.verse_annotations) :
          committed.verse_annotations[i].themes = <<"comfort">>
          /\ committed.verse_annotations[i].moods = <<"tired">>

\* C6: running an extractor and its writer a second time on the same source
\* leaves the store as the first run left it: the same keys, one row per
\* key, and every stored field (text_hash among them) the same.
C6_Idempotent ==
    run_no = 3 =>
        /\ cur = after_first
        /\ committed = after_first
        /\ KeysOf(cur.verses) = KeysOf(after_first.verses)
        /\ Len(cur.verses) = Cardinality(KeysOf(cur.verses))

\* Both runs are over, and the source held the same key twice.
C6_Witness ==
    /\ run_no = 3
    /\ Len(source) = 2
    /\ Len(cur.verses) = 1
    /\ committed.verses # << >>

Blank(text) == text = NoneStr \/ \A i \in 1..Len(text) : text[i] = " "

\* C9: UPSERT_IF_EMPTY on a key whose stored text is non-empty after
\* trimming leaves the five derived fields of that row unchanged; on a key
\* that is missing, or whose stored text is null or blank, it sets the five
\* fields to the values of the new row.
C9_PatchOnlyIfEmpty ==
    patch_rows # << >> =>
        LET new == patch_rows[1]
            key == <<new.osis_id, new.translation>>
            old == RowsAt(before_patch.verses, key)
            now == RowsAt(cur.verses, key)
        IN  /\ Cardinality(now) = 1
            /\ \A i \in now :
                 IF \E j \in old : ~Blank(before_patch.verses[j].text)
                 THEN \A j \in old : Only(cur.verses[i], VerseDerived)
                                     = Only(before_patch.verses[j], VerseDerived)
                 ELSE Only(cur.verses[i], VerseDerived) = Only(new, VerseDerived)

\* A blank stored text has been patched, and a later patch with another text
\* has met the patched row.
C9_Witness ==
    /\ patch_rows # << >>
    /\ committed.verses # << >>
    /\ Blank(committed.verses[1].text)
    /\ before_patch.verses[1].text = <<"a">>
    /\ patch_rows[1].osis_id = Gen_1_1
    /\ patch_rows[1].text # <<"a">>

\* C10: after any sequence of verse upserts and annotation upserts there is
\* exactly one row per key that was written, and it holds the derived fields
\* of the most recent upsert for that key.
C10_LastWriteWins ==
    /\ \A k \in DOMAIN last_verse :
        /\ Cardinality(RowsAt(cur.verses, k)) = 1
        /\ \A i \in RowsAt(cur.verses, k) :
             Only(cur.verses[i], VerseDerived) = last_verse[k]
    /\ \A k \in DOMAIN last_annotation :
        /\ Cardinality(RowsAt(cur.verse_annotations, k)) = 1
        /\ \A i \in RowsAt(cur.verse_annotations, k) :
             Only(cur.verse_annotations[i], AnnotationDerived) = last_annotation[k]

\* A verse row of an earlier run has been overwritten, and one key has been
\* written twice.
C10_Witness ==
    /\ n_upserts = 2
    /\ committed.verses # << >>
    /\ DOMAIN last_verse = {<<Gen_1_1, "KJV">>}
    /\ last_verse[<<Gen_1_1, "KJV">>].text # committed.verses[1].text
    /\ last_annotation = << >>

Distinct(tags) == \A i, j \in 1..Len(tags) : i # j => tags[i] # tags[j]

\* C11: with or without a fingerprint, themes is a non-empty list of at most
\* 3 distinct labels of the 15-entry theme vocabulary and moods a non-empty
\* list of at most 2 distinct labels of the 9-entry mood vocabulary; when no
\* theme reaches the similarity floor, or no keyword matches, themes is the
\* one fallback label.
C11_LabelSets ==
    ann_out # NoAnn =>
        /\ Cardinality(Labels(THEMES)) = 15 /\ Cardinality(Labels(MOODS)) = 9
        /\ Len(ann_out.themes) \in 1..3
        /\ Distinct(ann_out.themes)
        /\ Labels(ann_out.themes) \subseteq Labels(THEMES)
        /\ Len(ann_out.moods) \in 1..2
        /\ Distinct(ann_out.moods)
        /\ Labels(ann_out.moods) \subseteq Labels(MOODS)
        /\ (ann_vec # NoneVec /\ \A i \in 1..15 : ann_vec.theme_sims[i] < 25)
              => ann_out.themes = <<"comfort">>
        /\ (ann_vec = NoneVec /\ theme_keyword_picks(lower(ann_text)) = << >>)
              => ann_out.themes = <<"comfort">>

\* A fingerprint with every theme below the floor has been tagged.
C11_Witness ==
    /\ ann_out # NoAnn
    /\ ann_vec # NoneVec
    /\ \A i \in 1..15 : ann_vec.theme_sims[i] < 25
    /\ ann_out.themes = <<"comfort">>
    /\ Len(ann_out.moods) = 2

\* C12: kid_safe is true exactly when neither violence nor sexual is set,
\* whatever slavery and harsh_rebuke are; the flags are there with and
\* without a fingerprint; a text with the whole word sword has violence set
\* and kid_safe unset.
C12_SafetyFlags ==
    ann_out # NoAnn =>
        /\ ann_out.safety.kid_safe <=> ~(ann_out.safety.violence \/ ann_out.safety.sexual)
        /\ ann_text \in {<<"s", "w", "o", "r", "d">>, <<"S", "w", "o", "r", "d", ".">>, <<"a", " ", "s", "w", "o", "r", "d">>}
              => ann_out.safety.violence /\ ~ann_out.safety.kid_safe
        /\ ann_text = <<"s", "l", "a", "v", "e", " ", "w", "o", "e">>
              => /\ ann_out.safety.slavery /\ ann_out.safety.harsh_rebuke
                 /\ ann_out.safety.kid_safe

\* A text with Sword in it has been flagged without a fingerprint.
C12_Witness ==
    /\ ann_out # NoAnn
    /\ ann_vec = NoneVec
    /\ ann_text = <<"S", "w", "o", "r", "d", ".">>
    /\ ann_out.safety.violence
    /\ ~ann_out.safety.kid_safe

IsDistribution(p) ==
    /\ \A i \in 1..Len(p) : p[i][1] >= 0 /\ p[i][2] > 0 /\ p[i][2] = p[1][2]
    /\ Sum([i \in 1..Len(p) |-> p[i][1]]) = p[1][2]

\* C13: the daypart distribution has 4 values and the tone distribution 5,
\* none negative, each summing to 1; without a fingerprint they are the
\* fixed priors.
C13_Distributions ==
    ann_out # NoAnn =>
        /\ Len(ann_out.daypart_probs) = 4
        /\ Len(ann_out.tone_probs) = 5
        /\ IsDistribution(ann_out.daypart_probs)
        /\ IsDistribution(ann_out.tone_probs)
        /\ ann_vec = NoneVec =>
              /\ ann_out.daypart_probs = <<<<3, 10>>, <<4, 10>>, <<2, 10>>, <<1, 10>>>>
              /\ ann_out.tone_probs = <<<<4, 10>>, <<3, 10>>, <<1, 10>>, <<1, 10>>, <<1, 10>>>>

\* Distributions that are not uniform have come out of a fingerprint.
C13_Witness ==
    /\ ann_out # NoAnn
    /\ ann_vec # NoneVec
    /\ ann_out.daypart_probs[1] # ann_out.daypart_probs[4]
    /\ ann_out.tone_probs[1] # ann_out.tone_probs[2]

\* C14: the familiarity score depends on the length L of the text only, lies
\* in [0, 1], does not grow with L, is 0.5 for L >= 140 and is
\* 0.5 + (140 - L)/400 rounded to 3 decimals for L < 140 (in thousandths).
C14_Familiarity ==
    ann_out # NoAnn =>
        LET L == Len(ann_text)
            f == ann_out.familiarity
        IN  /\ f \in 0..1000
            /\ L >= 140 => f = 500
            /\ L < 140 => 2 * f - (1000 + 5 * (140 - L)) \in {-1, 0, 1}
            /\ \A t \in LengthTexts \cup KeywordTexts :
                  /\ Len(t) = L => familiarity_score(t) = f
                  /\ Len(t) >= L => familiarity_score(t) <= f

\* A text longer than 140 characters has been scored.
C14_Witness ==
    /\ ann_out # NoAnn
    /\ Len(ann_text) = 141
    /\ ann_out.familiarity = 500

\* C15: a verse with non-empty text in a book whose code is not in the book
\* table still yields a row, with the raw code as the book name.  Stated of
\* the streaming extractor: when the book element of an unknown code closes
\* while a verse with buffered text is open, that verse's row is yielded and
\* carries the code as its book.  (parse_osis of the DOM scripts does pass
\* the code through: BOOK_NAME_MAP.get(book_code, book_code).)
C15_UnknownBookPassesThrough ==
    [][(/\ current_book_code # NoneStr
        /\ current_book_code \notin DOMAIN USFX_TO_OSIS
        /\ current_verse # NoneInt
        /\ joined(buffer) # << >>
        /\ current_book_code' = NoneStr)
       => /\ Len(emitted') = Len(emitted) + 1
          /\ emitted'[Len(emitted')].book = current_book_code
          /\ emitted'[Len(emitted')].text = joined(buffer)]_vars

\* C16: a failed batch aborts the run.  The step on which a write, the
\* annotation of a batch or a commit raises (the work it abandons is recorded
\* in lost) ends the run as failed, commits nothing and leaves on the
\* connection only what was committed before; after it no record is written
\* and no batch is processed or committed.
C16_FailedBatchAborts ==
    [][/\ lost' # lost => pc' = "failed"
       /\ (pc # "failed" /\ pc' = "failed") => (committed' = committed /\ cur' = committed)
       /\ pc = "failed" => UNCHANGED <<storeVars, runVars>>]_vars
C16_Witness ==
    /\ script = "etl"
    /\ pc = "failed"
    /\ committed.verse_annotations # EmptyStore.verse_annotations
    /\ lost # committed
    /\ lost # EmptyStore

\* (osis_id, tr) of the queued entries, in order
QueuedKeys == [i \in 1..Len(batch_meta) |-> <<batch_meta[i][2], batch_meta[i][1]>>]
IsSuffix(p, q) ==
    Len(p) <= Len(q) /\ p = SubSeq(q, Len(q) - Len(p) + 1, Len(q))
Elems(q) == {q[i] : i \in 1..Len(q)}

\* What C17 says apart from the state of the queue: annotations are written
\* only by a batch triggered when the queue reached the commit size or by the
\* end-of-stream flush; a run that completes has annotated each verse it
\* wrote exactly once, in the order written, and has committed all of it.
BatchedExactlyOnce ==
    /\ [](script = "etl" /\ pc = "done" =>
            /\ Len(written) = count
            /\ annotated = written
            /\ Elems(written) \subseteq KeysOf(committed.verses)
            /\ Elems(annotated) \subseteq KeysOf(committed.verse_annotations)
            /\ cur = committed)
    /\ [][annotated' # annotated =>
            (pc' = "done" \/ Len(batch_texts) + 1 >= args.commit_size)]_vars

\* C17 as stated: ... the pending queue is empty at the end, and its length
\* never exceeds the commit size (between iterations, and after the append
\* of an iteration), for every commit size.
C17_QueueEmptyAtEnd ==
    /\ BatchedExactlyOnce
    /\ [](script = "etl" /\ pc = "done" => batch_texts = << >> /\ batch_meta = << >>)
    /\ [](script = "etl" => Len(batch_texts) <= args.commit_size)
    /\ [][written' # written => Len(batch_texts) + 1 <= args.commit_size]_vars

\* C17: batching completeness.  As above, and at the end nothing queued is
\* left unannotated: the queue is empty, or still holds exactly the entries
\* the end-of-stream flush has annotated (main does not clear it after that
\* flush); with a commit size of at least 1 the length of the queue never
\* exceeds the commit size.
C17_BatchingComplete ==
    /\ BatchedExactlyOnce
    /\ [](script = "etl" /\ pc = "done" =>
            /\ Len(batch_texts) = Len(batch_meta)
            /\ IsSuffix(QueuedKeys, annotated))
    /\ [](script = "etl" /\ args.commit_size >= 1 =>
            Len(batch_texts) <= args.commit_size)
    /\ [][(written' # written /\ args.commit_size >= 1) =>
            Len(batch_texts) + 1 <= args.commit_size]_vars
\* A run that ended with the flush of a tail of one verse
C17_Witness ==
    /\ script = "etl"
    /\ pc = "done"
    /\ args.commit_size = 2
    /\ Len(written) = 1
    /\ batch_texts # << >>
    /\ annotated = written
    /\ committed.verse_annotations # << >>

\* C18: during one run over one file the extractor never yields two rows
\* with the same (osis_id, translation), for every sequence of chapter and
\* verse markers, markers whose number token has no digits included.
C18_ExactlyOnce ==
    \A i, j \in 1..Len(emitted) :
        i # j => <<emitted[i].osis_id, emitted[i].translation>>
                 # <<emitted[j].osis_id, emitted[j].translation>>

\* C19: every row an extractor yields has chapter >= 1 and verse >= 1,
\* whatever the tokens of its identifier are.  Stated of the three parse_osis
\* (parse_usfx_stream adopts a chapter or verse number only if it is > 0).
C19_PositiveNumbers ==
    \A i \in 1..Len(yielded) : yielded[i].chapter >= 1 /\ yielded[i].verse >= 1

\* The number of dot-separated segments of an identifier
Segments(id) == 1 + Cardinality({i \in 1..Len(id) : id[i] = "."})
WellFormedBefore(k) ==
    SelectSeq(SubSeq(tree, 1, k - 1), LAMBDA n : Segments(n.osisID) >= 3)

\* C20: in parse_osis of import_kjv.py and of the ETL a verse node whose
\* identifier has fewer than 3 segments yields no row and does not stop the
\* loop, and the rows yielded so far are those of the well-formed nodes read
\* so far, one each, in document order.
C20_MalformedSkipped ==
    extractor \in {"kjv", "etl"} =>
        /\ Len(yielded) = Len(WellFormedBefore(node_idx))
        /\ \A i \in 1..Len(yielded) :
              /\ yielded[i].osis_id = WellFormedBefore(node_idx)[i].osisID
              /\ yielded[i].text = canonical(join(<< >>, WellFormedBefore(node_idx)[i].itertext))
\* A file read to its end whose second verse node is malformed, between two
\* well-formed ones
C20_Witness ==
    /\ extractor \in {"kjv", "etl"}
    /\ Len(tree) = 3
    /\ node_idx = 4
    /\ Segments(tree[1].osisID) >= 3
    /\ Segments(tree[2].osisID) < 3
    /\ Segments(tree[3].osisID) >= 3
    /\ Len(yielded) = 2
    /\ yielded[2].osis_id = tree[3].osisID

\* The parse event the next step of a scripted run handles
NextEvent == Events(doc)[pos]
IsMarkerStep(names) ==
    /\ ~Finished
    /\ pos' = pos + 1
    /\ NextEvent.kind = "start"
    /\ NextEvent.name \in names

\* C21: on every verse marker met while a chapter is set, the open verse is
\* flushed if its buffer is not empty, the buffer is emptied and the marker's
\* verse number becomes the open verse, so the text after the marker is not
\* added to the verse that was open before.
C21_VerseMarker ==
    [][(IsMarkerStep({"v", "verse"}) /\ current_chapter # NoneInt) =>
         /\ emitted' = emitted \o flush(current_osis_book, current_book_name,
                                        current_chapter, current_verse, buffer)
         /\ buffer' = capture(current_verse', current_chapter, NextEvent.name,
                              << >>, NextEvent.text)
         /\ current_verse' = marker_number(NextEvent.attrib)]_vars

\* C22: on every chapter marker met inside a book, an open verse with a
\* non-empty buffer is yielded as a row with the chapter that was current
\* before the marker; afterwards the buffer is empty, no verse is open and
\* the current chapter is the marker's.
C22_ChapterMarker ==
    [][(IsMarkerStep({"c", "chapter"}) /\ current_book_code # NoneStr) =>
         /\ IF current_verse # NoneInt /\ buffer # << >>
            THEN /\ Len(emitted') = Len(emitted) + 1
                 /\ SubSeq(emitted', 1, Len(emitted)) = emitted
                 /\ emitted'[Len(emitted')].chapter = current_chapter
                 /\ emitted'[Len(emitted')].verse = current_verse
                 /\ emitted'[Len(emitted')].text = joined(buffer)
            ELSE emitted' = emitted
         /\ buffer' = << >>
         /\ current_verse' = NoneInt
         /\ current_chapter' = marker_number(NextEvent.attrib)]_vars

\* The step on which iterparse delivers the end of a book element
IsBookEnd ==
    /\ stack # << >>
    /\ stack[Len(stack)] = "book"
    /\ stack' = SubSeq(stack, 1, Len(stack) - 1)

\* C23: when a book closes, an open verse with a non-empty buffer is yielded
\* exactly once, as a row of that verse, and afterwards the book code, book
\* name, chapter and verse are unset and the buffer is empty.
C23_BookEnd ==
    [][IsBookEnd =>
         /\ IF current_verse # NoneInt /\ buffer # << >>
            THEN /\ Len(emitted') = Len(emitted) + 1
                 /\ SubSeq(emitted', 1, Len(emitted)) = emitted
                 /\ emitted'[Len(emitted')].chapter = current_chapter
                 /\ emitted'[Len(emitted')].verse = current_verse
            ELSE Len(emitted') <= Len(emitted) + 1
         /\ current_book_code' = NoneStr
         /\ current_book_name' = NoneStr
         /\ current_osis_book' = NoneStr
         /\ current_chapter' = NoneInt
         /\ current_verse' = NoneInt
         /\ buffer' = << >>]_vars

\* C24: in every state a verse is open only if a chapter is set, and a
\* chapter is set only if a book with a resolved code is open.
C24_StateHierarchy ==
    /\ current_verse # NoneInt => current_chapter # NoneInt
    /\ current_chapter # NoneInt => current_osis_book # NoneStr

\* The text segments of the verse of an inline document that are not inside
\* a note or cross-reference element, in document order
VerseSegments(d) ==
    <<d.pre>> \o (IF d.name \in SKIP_NAMES THEN << >> ELSE <<d.inner>>) \o <<d.post>>

\* C25: every non-blank text segment between a verse marker and the next
\* marker or book end that is not inside a note or cross-reference subtree,
\* the text that directly follows the close of a note element included, is in
\* the verse's row, in document order.
C25_NoTextLost ==
    (doc.kind = "inline" /\ Finished /\ joined(VerseSegments(doc)) # << >>) =>
        /\ Len(emitted) = 1
        /\ emitted[1].text = canonical(joined(VerseSegments(doc)))

\* '<book code>.<chapter>.<verse>' as an f-string formats the numbers
StableId(code, chapter, verse) ==
    code \o <<".">>
    \o (IF chapter < 0 THEN <<"-">> \o str(0 - chapter) ELSE str(chapter))
    \o <<".">>
    \o (IF verse < 0 THEN <<"-">> \o str(0 - verse) ELSE str(verse))

\* C26: the osis_id of every yielded row is '<book code>.<chapter>.<verse>'
\* built from the row's own chapter and verse, however the source spelled
\* the identifier.  Stated of the three parse_osis (make_row of the
\* streaming extractor builds the osis_id from the numbers).
C26_StableIdFromTuple ==
    \A i \in 1..Len(yielded) :
        yielded[i].osis_id =
            StableId(<<yielded[i].osis_id[1]>>, yielded[i].chapter, yielded[i].verse)

HasOutsideText(s) == \E i \in 1..Len(s) : s[i] = "o"

\* C28: text before a book start or after a book's end marker, the text
\* right after the closing tag included, is never in the buffer or in the
\* text of a yielded row.
C28_OutsideTextNotCaptured ==
    /\ \A i \in 1..Len(buffer) : ~HasOutsideText(buffer[i])
    /\ \A i \in 1..Len(emitted) : ~HasOutsideText(emitted[i].text)

\* C27: within one process the descriptions of each label vocabulary (theme,
\* mood, tone, daypart) are given to embed_texts at most once, however many
\* verses are annotated.
C27_CentroidsBuiltOnce ==
    \A vocabulary \in DOMAIN label_embeds : label_embeds[vocabulary] <= 1

=========================================================================
